---- MODULE Spec2Model ----
(***************************************************************************)
(* State-machine model of the transport and dispatch layer of              *)
(* frappe_mcp_server: src/src/streamable-http-server.ts (session store,    *)
(* transport negotiation, JSON-RPC dispatcher) and src/src/middleware.ts   *)
(* (security, rate limiting, metrics, error handling).                     *)
(*                                                                         *)
(* Time is in milliseconds, as Date.now() gives it.  One POST / request is *)
(* one Post step (the middleware chain and the handler up to its first     *)
(* await) followed, when the handler awaits a collaborator, by one Resume  *)
(* step; timers and other requests interleave between the two.             *)
(***************************************************************************)
EXTENDS Integers, Sequences, FiniteSets, TLC

VARIABLES
    now,             \* Date.now()
    env,             \* process.env: NODE_ENV and MCP_API_KEY
    sessions,        \* Map<string, Session>: id -> [createdAt, lastActivity]
    issued,          \* ids randomUUID() has returned so far
    rateLimitStore,  \* Map<string, RateLimitEntry>: client -> [count, resetTime]
    metrics,         \* the metrics object of middleware.ts
    timers,          \* due times of the module-level setInterval timers
    streams,         \* open event-stream connections and their heartbeat timers
    pending,         \* POST / requests suspended at an await
    last,            \* the request that finished last, with everything written for it
    created          \* the session ids stored so far, in creation order

vars == <<now, env, sessions, issued, rateLimitStore, metrics, timers, streams,
          pending, last, created>>

----------------------------------------------------------------------------
(* Bounds of the model *)

MaxSessions == 3

MaxRequests == 2

MaxInFlight == 1

MaxStreams == 2

MaxOver == 2

MaxOtherRequests == 1

MaxReads == 3

MaxExtra == 2

----------------------------------------------------------------------------
(* Program constants *)

SESSION_TIMEOUT == 30 * 60 * 1000

SWEEP_INTERVAL == 60000

HEARTBEAT_INTERVAL == 30000

RATE_LIMIT_WINDOW == 60 * 1000

RATE_LIMIT_MAX_REQUESTS == 100

RATE_SWEEP_INTERVAL == 60000

\* The period of the response-time history cleanup, the length above which it
\* truncates, and the number of samples it keeps.
COMPACT_INTERVAL == 5 * 60 * 1000

HISTORY_LIMIT == 1000

HISTORY_KEEP == 500

----------------------------------------------------------------------------
(* Values *)

NoSession == 0

SessionIds == 1..MaxSessions

\* JSON-RPC ids a client may send; "absent" is a body without the id field.
RequestIds == {"absent", "zero", "empty", "one"}

\* JavaScript truthiness of an id, as `id || null` and `if (id)` see it.
Falsy(id) == id \in {"absent", "zero", "empty", "null"}

IdOrNull(id) == IF Falsy(id) THEN "null" ELSE id

\* The keys of the tools object literal (a representative part of the registry).
RegistryNames == {"ping", "get_module_list", "check_doctype_exists", "find_doctypes"}

\* Property names every object literal inherits from Object.prototype.
ObjectPrototypeKeys == {"constructor", "toString"}

\* tools[toolName] is truthy: an own key or an inherited property.
HasProperty(toolName) == toolName \in RegistryNames \cup ObjectPrototypeKeys

\* The zod schema of each tool: key -> [type, optional].
ToolSchema(toolName) ==
    CASE toolName = "check_doctype_exists" ->
            [k \in {"doctype"} |-> [type |-> "string", optional |-> FALSE]]
      [] toolName = "find_doctypes" ->
            [k \in {"module", "limit"} |->
                IF k = "limit" THEN [type |-> "number", optional |-> TRUE]
                               ELSE [type |-> "string", optional |-> TRUE]]
      [] OTHER -> [k \in {} |-> [type |-> "string", optional |-> FALSE]]

Empty == [k \in {} |-> "string"]

\* params.arguments of a tools/call: kind "object" with obj (key -> type of its
\* value), kind "absent" (no arguments field) or kind "null" (not an object).
ArgObjects ==
    { Empty,
      [k \in {"doctype"} |-> "string"],
      [k \in {"doctype"} |-> "number"],
      [k \in {"limit"} |-> "string"],
      [k \in {"random_string"} |-> "string"],
      [k \in {"doctype", "random_string"} |-> "string"] }

NoArgs == [kind |-> "absent", obj |-> Empty]

ArgInputs ==
    {NoArgs, [kind |-> "null", obj |-> Empty]}
        \cup { [kind |-> "object", obj |-> o] : o \in ArgObjects }

\* A validator that reports nothing.
ZodIssuesNone(schema, args) == {}

\* The issues z.object(...).parse reports: one per key that is required and
\* missing, or present with a value of the wrong type.
ZodIssues(schema, args) ==
    { k \in DOMAIN schema :
        IF k \in DOMAIN args THEN args[k] # schema[k].type
                             ELSE ~schema[k].optional }

\* An object schema that keeps the keys it does not declare.
ZodPassthrough(schema, args) == args

\* z.object strips the keys the schema does not declare.
ZodStrip(schema, args) ==
    [k \in DOMAIN args \cap DOMAIN schema |-> args[k]]

\* toolDef.schema.parse(toolArgs): `arguments: toolArgs = {}` makes a missing
\* arguments field {}, and null is not an object.
ZodParse(schema, toolArgs) ==
    IF toolArgs.kind = "null"
    THEN [ok |-> FALSE, value |-> Empty, issues |-> {"<root>"}]
    ELSE [ok |-> ZodIssues(schema, toolArgs.obj) = {},
          value |-> ZodStrip(schema, toolArgs.obj),
          issues |-> ZodIssues(schema, toolArgs.obj)]

----------------------------------------------------------------------------
(* Requests *)

Methods ==
    {"initialize", "tools/list", "tools/call", "resources/list", "resources/read",
     "prompts/list", "prompts/get", "notifications/initialized",
     "notifications/message", "resources/read/x", "prompts/run", "unknown/method",
     "absent"}

\* method.startsWith(m) for the methods of the model.
StartsWith(method, m) ==
    \/ method = m
    \/ method = "resources/read/x" /\ m = "resources/read"

\* A request with every field at its default; the request sets of the
\* specifications vary the fields their claims are about.
BaseRequest ==
    [client |-> "a",            \* req.ip
     xApiKey |-> "absent",      \* x-api-key header
     authorization |-> "absent",
     bodyOk |-> TRUE,           \* express.json could parse the body
     sid |-> NoSession,         \* x-session-id header
     userAgent |-> "other",
     accept |-> "application/json",
     jsonrpc |-> "2.0",
     method |-> "initialize",
     id |-> "one",
     params |-> "object",       \* "object", "absent" or "null"
     name |-> "absent",         \* params.name
     args |-> NoArgs,           \* params.arguments
     uri |-> "absent"]          \* params.uri

----------------------------------------------------------------------------
(* Messages written to a response *)

NoResult == [tag |-> "none", sessionId |-> NoSession, tool |-> "none", args |-> Empty]

\* A JSON-RPC message as serialised: id "absent" is a message without id field,
\* kind is "result", "error", "progress" (a notification) or "empty" (no body).
Msg(id, kind, code, data, result) ==
    [id |-> id, kind |-> kind, code |-> code, data |-> data, result |-> result,
     text |-> "fixed"]

ResultMsg(id, result) == Msg(id, "result", 0, {}, result)

ErrorMsg(id, code, data) == Msg(id, "error", code, data, NoResult)

\* message: error instanceof Error ? error.message : 'Internal error' -- the
\* message is the text of the exception that was caught.
ExceptionMsg(id, code, data) ==
    [ErrorMsg(id, code, data) EXCEPT !.text = "exception"]

EmptyMsg == Msg("absent", "empty", 0, {}, NoResult)

\* What a tool handler returns for validated arguments.
HandlerResult(toolName, validatedArgs) ==
    [tag |-> "content", sessionId |-> NoSession, tool |-> toolName,
     args |-> validatedArgs]

CollaboratorResult(tag) ==
    [tag |-> tag, sessionId |-> NoSession, tool |-> "none", args |-> Empty]

----------------------------------------------------------------------------
(* Session store *)

\* A generator that returns the same id again.
RandomUUIDRepeat(used) == CHOOSE id \in SessionIds : \A other \in SessionIds : id <= other

\* randomUUID(): an id that was never returned before (the smallest unused id
\* of the model; which one it is does not matter, only that it is fresh).
RandomUUID(used) ==
    CHOOSE id \in SessionIds \ used : \A other \in SessionIds \ used : id <= other

\* A session whose lastActivity starts at the epoch.
NewSessionEpoch(t) == [createdAt |-> t, lastActivity |-> 0]

\* { id, createdAt: new Date(), lastActivity: new Date(), messageQueue: [] }
NewSession(t) == [createdAt |-> t, lastActivity |-> t]

\* sessions.set(id, session)
SessionsSet(store, id, session) ==
    [k \in DOMAIN store \cup {id} |-> IF k = id THEN session ELSE store[k]]

\* sessions.delete(id)
SessionsDelete(store, id) == [k \in DOMAIN store \ {id} |-> store[k]]

\* A middleware that stores a session for an id it does not find.
TouchOrCreate(store, sid, t) ==
    [k \in DOMAIN store \cup {sid} |-> [createdAt |-> t, lastActivity |-> t]]

\* The session middleware: a request bearing the id of a stored session sets
\* that session's lastActivity to the current time; any other id is ignored.
Touch(store, sid, t) ==
    IF sid \in DOMAIN store THEN [store EXCEPT ![sid].lastActivity = t] ELSE store

\* A middleware that never attaches a session to the request.
ResolveSessionNone(store, sid) == NoSession

\* req.session after the session middleware.
ResolveSession(store, sid) == IF sid \in DOMAIN store THEN sid ELSE NoSession

\* A test on the creation time instead of the last activity.
ExpiredStale(session, t) == t - session.createdAt > SESSION_TIMEOUT

\* The test of the sweep loop on one session.
Expired(session, t) == t - session.lastActivity > SESSION_TIMEOUT

\* A sweep that stops after the first session it deletes.
SweepSessionsFirst(store, t) ==
    LET expired == {id \in DOMAIN store : Expired(store[id], t)}
        first == {id \in expired : \A other \in expired : id <= other}
    IN  [k \in DOMAIN store \ first |-> store[k]]

\* The sweep loop: every stored session that is expired at t is deleted.
SweepSessions(store, t) ==
    [k \in {id \in DOMAIN store : ~Expired(store[id], t)} |-> store[k]]

----------------------------------------------------------------------------
(* Metrics *)

\* obj[key] = (obj[key] || 0) + 1
Bump(counts, key) ==
    [k \in DOMAIN counts \cup {key} |->
        IF k = key THEN (IF key \in DOMAIN counts THEN counts[key] ELSE 0) + 1
                   ELSE counts[k]]

\* The sum of s[lo..hi], split in halves so that long histories are summed
\* in few nested steps.
RECURSIVE SumRange(_, _, _)
SumRange(s, lo, hi) ==
    IF lo > hi THEN 0
    ELSE IF lo = hi THEN s[lo]
    ELSE LET mid == (lo + hi) \div 2
         IN  SumRange(s, lo, mid) + SumRange(s, mid + 1, hi)

\* history.reduce((a, b) => a + b, 0)
SumSeq(s) == SumRange(s, 1, Len(s))

\* A wrapper that tallies params.name for every method.
RecordJsonAnyMethod(m, statusCode, responseTime, req) ==
    LET history == Append(m.history, responseTime)
        ok == statusCode >= 200 /\ statusCode < 300
        tallied == req.bodyOk /\ req.params = "object" /\ req.name # "absent"
    IN  [m EXCEPT !.history = history,
                  !.avg = [sum |-> SumSeq(history), n |-> Len(history)],
                  !.success = IF ok THEN @ + 1 ELSE @,
                  !.error = IF ok THEN @ ELSE @ + 1,
                  !.byStatus = Bump(@, statusCode),
                  !.byTool = IF tallied THEN Bump(@, req.name) ELSE @]

\* The wrapped res.json of metricsMiddleware; avgResponseTime is kept as the
\* exact quotient sum / n.
RecordJson(m, statusCode, responseTime, req) ==
    LET history == Append(m.history, responseTime)
        ok == statusCode >= 200 /\ statusCode < 300
        tallied == req.bodyOk /\ req.method = "tools/call" /\ req.params = "object"
                   /\ req.name # "absent"
    IN  [m EXCEPT !.history = history,
                  !.avg = IF Len(history) = 1
                          THEN [sum |-> responseTime, n |-> 1]
                          ELSE [sum |-> SumSeq(history), n |-> Len(history)],
                  !.success = IF ok THEN @ + 1 ELSE @,
                  !.error = IF ok THEN @ ELSE @ + 1,
                  !.byStatus = Bump(@, statusCode),
                  !.byTool = IF tallied THEN Bump(@, req.name) ELSE @]

\* A truncation that keeps the oldest samples.
CompactHistoryOldest(history) ==
    IF Len(history) > HISTORY_LIMIT THEN SubSeq(history, 1, HISTORY_KEEP) ELSE history

\* responseTimeHistory.slice(-500) when the history is longer than 1000
CompactHistory(history) ==
    IF Len(history) > HISTORY_LIMIT
    THEN SubSeq(history, Len(history) - HISTORY_KEEP + 1, Len(history))
    ELSE history

\* The callback of the history cleanup timer: the mean is recomputed only when
\* the history was truncated.
CompactMetrics(m) ==
    IF Len(m.history) > HISTORY_LIMIT
    THEN LET kept == CompactHistory(m.history)
         IN  [m EXCEPT !.history = kept,
                       !.avg = [sum |-> SumSeq(kept), n |-> Len(kept)]]
    ELSE m

\* updateSessionMetrics(activeCount, totalCount)
UpdateSessionMetrics(m, activeCount, totalCount) ==
    [m EXCEPT !.sessionsActive = activeCount, !.sessionsTotal = totalCount]

----------------------------------------------------------------------------
(* Security and rate limiting *)

\* authorization.replace('Bearer ', ''): the first occurrence of 'Bearer ' is
\* removed wherever it stands; a value without one is returned as it is.
StripBearer(authorization) ==
    CASE authorization = "Bearer secret" -> "secret"
      [] authorization = "Bearer wrong" -> "wrong"
      [] authorization = "seBearer cret" -> "secret"
      [] authorization = "Bearer Bearer secret" -> "Bearer secret"
      [] OTHER -> authorization

\* req.headers['x-api-key'] || req.headers['authorization']?.replace('Bearer ', '')
\* ("empty": a header with the empty string as value, which is falsy).
ProvidedKey(req) ==
    IF req.xApiKey \notin {"absent", "empty"} THEN req.xApiKey
    ELSE IF req.authorization = "absent" THEN "undefined"
    ELSE StripBearer(req.authorization)

\* securityMiddleware short-circuits with 401.
Unauthorized(req) ==
    /\ env.NODE_ENV = "production"
    /\ env.MCP_API_KEY # "unset"
    /\ ProvidedKey(req) # env.MCP_API_KEY

\* rateLimitMiddleware is skipped outside production.
\* A limiter that is active in every environment.
RateLimitActiveAlways == TRUE

RateLimitActive == env.NODE_ENV = "production"

\* A lookup that keeps a stored entry however old its window is.
RateEntryNoExpiry(store, clientId, t) ==
    IF clientId \notin DOMAIN store
    THEN [count |-> 0, resetTime |-> t + RATE_LIMIT_WINDOW]
    ELSE store[clientId]

\* The entry the middleware works on: the stored one, or a fresh window when
\* there is none or the stored window has elapsed.
RateEntry(store, clientId, t) ==
    IF clientId \notin DOMAIN store \/ t > store[clientId].resetTime
    THEN [count |-> 0, resetTime |-> t + RATE_LIMIT_WINDOW]
    ELSE store[clientId]

\* entry.count++
RateEntryAfter(store, clientId, t) ==
    [RateEntry(store, clientId, t) EXCEPT !.count = @ + 1]

\* A store that keeps one entry, that of the last client.
RateStoreSetOnly(store, clientId, entry) == [k \in {clientId} |-> entry]

\* rateLimitStore.set(clientId, entry)
RateStoreSet(store, clientId, entry) ==
    [k \in DOMAIN store \cup {clientId} |-> IF k = clientId THEN entry ELSE store[k]]

\* A test that already rejects the request that reaches the ceiling.
OverLimitEarly(entry) == entry.count >= RATE_LIMIT_MAX_REQUESTS

\* entry.count > RATE_LIMIT_MAX_REQUESTS
OverLimit(entry) == entry.count > RATE_LIMIT_MAX_REQUESTS

\* Math.ceil(x / d) for x >= 0
CeilDiv(x, d) == (x + d - 1) \div d

\* data.retryAfter of the rate-limited response
RetryAfter(entry, t) == CeilDiv(entry.resetTime - t, 1000)

NoRateHeaders == [set |-> FALSE, limit |-> 0, remaining |-> 0, reset |-> 0]

\* X-RateLimit-Limit, X-RateLimit-Remaining, X-RateLimit-Reset
RateHeaders(entry) ==
    [set |-> TRUE,
     limit |-> RATE_LIMIT_MAX_REQUESTS,
     remaining |-> IF RATE_LIMIT_MAX_REQUESTS - entry.count > 0
                   THEN RATE_LIMIT_MAX_REQUESTS - entry.count ELSE 0,
     reset |-> CeilDiv(entry.resetTime, 1000)]

\* A chain in which the rate limiter answers before the security stage.
ShortCircuitStageRateFirst(req, entry) ==
    IF RateLimitActive /\ OverLimit(entry) THEN "ratelimit"
    ELSE IF Unauthorized(req) THEN "security"
    ELSE "none"

\* app.use(securityMiddleware); app.use(rateLimitMiddleware): the stage that
\* answers the request itself, with entry the client's rate-limit entry
\* counting this request; "none" when both call next().
ShortCircuitStage(req, entry) ==
    IF Unauthorized(req) THEN "security"
    ELSE IF RateLimitActive /\ OverLimit(entry) THEN "ratelimit"
    ELSE "none"

\* A sweep that also deletes the entries whose window ends at this instant.
SweepRateLimitsEager(store, t) ==
    [k \in {c \in DOMAIN store : ~(t >= store[c].resetTime)} |-> store[k]]

\* The rate-limit sweep: entries whose window has elapsed are deleted.
SweepRateLimits(store, t) ==
    [k \in {c \in DOMAIN store : ~(t > store[c].resetTime)} |-> store[k]]

----------------------------------------------------------------------------
(* Transport negotiation *)

\* userAgent?.includes('Cursor') for the user agents of the model ("absent":
\* no User-Agent header).
IncludesCursor(userAgent) == userAgent \in {"Cursor", "Mozilla/5.0 Cursor/1.2"}

\* accept?.includes('text/event-stream') for the Accept headers of the model.
IncludesEventStream(accept) ==
    accept \in {"text/event-stream", "application/json, text/event-stream"}

\* A decision without the user-agent denylist.
ShouldStreamNoDenylist(method, userAgent) ==
    \E m \in {"resources/read", "prompts/run"} : StartsWith(method, m)

\* shouldStream(method, userAgent)
ShouldStream(method, userAgent) ==
    IF IncludesCursor(userAgent) THEN FALSE
    ELSE \E m \in {"resources/read", "prompts/run"} : StartsWith(method, m)

\* shouldStream(...) && req.headers.accept?.includes('text/event-stream')
Streaming(req) ==
    ShouldStream(req.method, req.userAgent) /\ IncludesEventStream(req.accept)

\* The frame written right after the stream's headers.
InitialFrame(req, sess) ==
    ResultMsg(req.id, [tag |-> "streaming", sessionId |-> sess, tool |-> "none",
                       args |-> Empty])

----------------------------------------------------------------------------
(* The JSON-RPC dispatcher: the switch of app.post('/') *)

\* An envelope check that lets the 1.0 tag through.
EnvelopeValidLax(req) == req.jsonrpc \in {"2.0", "1.0"}

\* if (jsonrpc !== "2.0") is not taken
EnvelopeValid(req) == req.jsonrpc = "2.0"

\* A handler that answers everything with HTTP 200.
RespondOk(status, msg) ==
    [kind |-> "respond", status |-> 200, msg |-> msg, plain |-> FALSE,
     await |-> "none", validated |-> Empty]

\* The GET endpoints that answer with a JSON snapshot; the last two await a
\* collaborator.
ReadOnlyEndpoints ==
    {"GET /health", "GET /info", "GET /metrics", "GET /tools", "GET /resources",
     "GET /prompts"}

AsyncEndpoints == {"GET /resources", "GET /prompts"}

\* The body of a snapshot endpoint: a JSON object that is not a JSON-RPC message.
SnapshotMsg(tag) == Msg("absent", "json", 0, {}, CollaboratorResult(tag))

\* Outcomes of the handler's synchronous part: it writes its one response
\* (Respond), suspends at an await on a collaborator (Await), or throws to
\* the outer catch (Throw).  `plain` marks the branch that writes with
\* res.status(..).json / .end() without looking at the streaming flag.
Respond(status, msg) ==
    [kind |-> "respond", status |-> status, msg |-> msg, plain |-> FALSE,
     await |-> "none", validated |-> Empty]

RespondPlain(status, msg) ==
    [kind |-> "respond", status |-> status, msg |-> msg, plain |-> TRUE,
     await |-> "none", validated |-> Empty]

Await(what, validated) ==
    [kind |-> "await", status |-> 0, msg |-> EmptyMsg, plain |-> FALSE,
     await |-> what, validated |-> validated]

Throw ==
    [kind |-> "throw", status |-> 0, msg |-> EmptyMsg, plain |-> FALSE,
     await |-> "none", validated |-> Empty]

\* const { name: toolName, arguments: toolArgs = {} } = params, with params = {}
\* when the body has none.
ToolName(req) == IF req.params = "object" THEN req.name ELSE "absent"

ToolArgs(req) == IF req.params = "object" THEN req.args ELSE NoArgs

\* case 'tools/call', up to the await on the handler
ToolsCall(req) ==
    IF req.params = "null" THEN Throw
    ELSE IF ToolName(req) = "absent" \/ ~HasProperty(ToolName(req))
    THEN Respond(404, ErrorMsg(req.id, -32601, RegistryNames))
    ELSE IF ToolName(req) \notin RegistryNames
    THEN \* toolDef is an inherited property: toolDef.schema is undefined and
         \* .parse throws a TypeError inside the try
         Respond(500, ExceptionMsg(req.id, -32603, {}))
    ELSE LET parsed == ZodParse(ToolSchema(ToolName(req)), ToolArgs(req))
         IN  IF parsed.ok THEN Await("tool", parsed.value)
             ELSE Respond(500, ExceptionMsg(req.id, -32602, parsed.issues))

\* case 'resources/read' and case 'prompts/get', up to the await
ReadOrGet(req, param, what) ==
    IF req.params = "null" THEN Throw
    ELSE IF req.params = "absent" \/ param = "absent"
    THEN Respond(400, ErrorMsg(req.id, -32602, {}))
    ELSE Await(what, Empty)

\* A default case that reports an internal error.
MethodNotFoundInternal(req) == Respond(500, ErrorMsg(req.id, -32603, {}))

\* default: of the switch
MethodNotFound(req) == Respond(404, ErrorMsg(req.id, -32601, {}))

\* Object.entries(tools): the registry's own keys in the order of the literal.
RegistryKeys == <<"ping", "find_doctypes", "get_module_list", "check_doctype_exists">>

\* Object.entries(categorizeTools()), as far as it names tools of the model.
ToolCategories ==
    << [name |-> "document", tools |-> {"create_document"}],
       [name |-> "schema", tools |-> {"get_doctype_schema"}],
       [name |-> "helper", tools |-> {"find_doctypes", "get_module_list",
                                       "check_doctype_exists"}],
       [name |-> "report", tools |-> {"list_reports"}],
       [name |-> "system", tools |-> {"ping", "version"}] >>

\* The first category whose list includes the name, 'system' when none does.
ToolCategory(name) ==
    LET hits == {i \in 1..Len(ToolCategories) : name \in ToolCategories[i].tools}
    IN  IF hits = {} THEN "system"
        ELSE ToolCategories[CHOOSE i \in hits : \A j \in hits : i <= j].name

\* getToolCategories(): category -> its metadata.
GetToolCategories ==
    [c \in {"document", "schema", "helper", "report", "system"} |-> [info |-> c]]

\* zodToJsonSchema of a z.object: the type of each property, unwrapping
\* optionals, and the keys that are not optional.
ZodToJsonSchema(schema) ==
    [type |-> "object",
     properties |-> [k \in DOMAIN schema |-> [type |-> schema[k].type]],
     required |-> {k \in DOMAIN schema : ~schema[k].optional},
     additionalProperties |-> FALSE]

\* The entry that the map callback of case 'tools/list' returns for a tool.
ToolEntry(name) ==
    [name |-> name,
     description |-> [of |-> name],
     inputSchema |-> ZodToJsonSchema(ToolSchema(name)),
     category |-> ToolCategory(name),
     categoryInfo |-> GetToolCategories[ToolCategory(name)]]

\* A list of only the tools that categorizeTools() files under 'helper'.
ToolListHelpers ==
    LET keys == SelectSeq(RegistryKeys, LAMBDA n : ToolCategory(n) = "helper")
    IN  [i \in 1..Len(keys) |-> ToolEntry(keys[i])]

\* toolList of case 'tools/list': one entry per entry of the registry.
ToolList == [i \in 1..Len(RegistryKeys) |-> ToolEntry(RegistryKeys[i])]

\* { tools: toolList, categories, totalTools: toolList.length }
ToolsListResult ==
    [tag |-> "tools", sessionId |-> NoSession, tool |-> "none", args |-> Empty,
     tools |-> ToolList,
     categories |-> GetToolCategories,
     totalTools |-> Len(ToolList)]

\* The switch on method, up to the first await.
Handle(req, sess) ==
    CASE req.method = "initialize" ->
            Respond(200, ResultMsg(req.id, [tag |-> "initialize", sessionId |-> sess,
                                            tool |-> "none", args |-> Empty]))
      [] req.method = "tools/list" ->
            Respond(200, ResultMsg(req.id, ToolsListResult))
      [] req.method = "tools/call" -> ToolsCall(req)
      [] req.method = "resources/list" -> Await("resources/list", Empty)
      [] req.method = "resources/read" -> ReadOrGet(req, req.uri, "resources/read")
      [] req.method = "prompts/list" -> Await("prompts/list", Empty)
      [] req.method = "prompts/get" -> ReadOrGet(req, req.name, "prompts/get")
      [] req.method = "notifications/initialized" -> Respond(204, EmptyMsg)
      [] req.method = "notifications/message" ->
            IF ~Falsy(req.id)
            THEN RespondPlain(400, ErrorMsg(req.id, -32600, {}))
            ELSE RespondPlain(204, EmptyMsg)
      [] OTHER -> MethodNotFound(req)

\* What may happen inside a collaborator when it is awaited: it succeeds
\* ("ok"), finds nothing ("absent"), or an exception is raised inside it
\* ("throw"; for a tool handler also "zod", a ZodError).  listPrompts only
\* builds a list.
Outcomes(what) ==
    CASE what = "tool" -> {"ok", "throw", "zod"}
      [] what \in {"resources/read", "prompts/get"} -> {"ok", "absent", "throw"}
      [] what \in {"resources/list", "GET /resources"} -> {"ok", "throw"}
      [] OTHER -> {"ok"}

\* What the dispatcher gets back from the await.  Tool handlers have no catch
\* of their own.  getResource and getPrompt catch every exception and return
\* null; listResources catches every exception and returns [].
Returned(what, outcome) ==
    CASE what = "tool" -> outcome
      [] what \in {"resources/read", "prompts/get"} ->
            IF outcome = "throw" THEN "absent" ELSE outcome
      [] what \in {"resources/list", "GET /resources"} ->
            IF outcome = "throw" THEN "empty" ELSE outcome
      [] OTHER -> outcome

\* data: process.env.NODE_ENV === 'development' ? error : undefined  (the
\* exception itself, or its stack in errorHandlingMiddleware)
DevData == IF env.NODE_ENV = "development" THEN {"<exception>"} ELSE {}

\* A catch block that reports every failure as an internal error.
ContinueAllInternal(p, outcome) ==
    IF p.await = "tool" /\ outcome = "ok"
    THEN Respond(200, ResultMsg(p.req.id, HandlerResult(ToolName(p.req), p.validated)))
    ELSE Respond(500, ErrorMsg(p.req.id, -32603, {}))

\* The handler after the await: the response for the collaborator's outcome.
Continue(p, outcome) ==
    LET req == p.req
    IN  CASE p.await = "tool" ->
               CASE outcome = "ok" ->
                       Respond(200, ResultMsg(req.id,
                                   HandlerResult(ToolName(req), p.validated)))
                 [] outcome = "zod" ->
                       Respond(500, ExceptionMsg(req.id, -32602, {"<handler>"}))
                 [] OTHER -> Respond(500, ExceptionMsg(req.id, -32603, {}))
          [] p.await \in {"resources/read", "prompts/get"} ->
               CASE Returned(p.await, outcome) = "ok" ->
                       Respond(200, ResultMsg(req.id, CollaboratorResult(p.await)))
                 [] Returned(p.await, outcome) = "absent" ->
                       Respond(404, ErrorMsg(req.id, -32601, {}))
                 [] OTHER -> Respond(500, ExceptionMsg(req.id, -32603, DevData))
          [] p.await \in AsyncEndpoints ->
               CASE Returned(p.await, outcome) \in {"ok", "empty"} ->
                       Respond(200, SnapshotMsg(p.await))
                 [] OTHER -> Respond(500, SnapshotMsg("error"))
          [] OTHER ->
               CASE Returned(p.await, outcome) = "ok" ->
                       Respond(200, ResultMsg(req.id, CollaboratorResult(p.await)))
                 [] Returned(p.await, outcome) = "empty" ->
                       Respond(200, ResultMsg(req.id, CollaboratorResult("empty list")))
                 [] OTHER -> Respond(500, ExceptionMsg(req.id, -32603, DevData))

----------------------------------------------------------------------------
(* Writing the response of a POST / request *)

\* rateLimitStore.get(clientId)?.count as the request finds it (0: no entry).
FoundCount(clientId) ==
    IF clientId \in DOMAIN rateLimitStore THEN rateLimitStore[clientId].count ELSE 0

\* The state of one POST / request inside the handler.
Context(req, sess, createdSid, streaming, stream, frames, rl) ==
    [req |-> req, session |-> sess, createdSid |-> createdSid,
     streaming |-> streaming, stream |-> stream, frames |-> frames, rl |-> rl,
     start |-> now, await |-> "none", validated |-> Empty, invoked |-> 0,
     outcome |-> "none", found |-> FoundCount(req.client)]

\* The outer catch of app.post('/'): id is req.body.id || null.
OuterCatchMsg(req) == ExceptionMsg(IdOrNull(req.id), -32603, {})

\* What is finally written for outcome o (a Respond or a Throw): a branch that
\* calls res.json after the stream's headers were sent throws into the outer
\* catch, like a Throw.
Effective(c, o) ==
    IF o.kind = "throw" \/ (c.streaming /\ o.plain /\ o.msg.kind # "empty")
    THEN [status |-> 500, msg |-> OuterCatchMsg(c.req), threw |-> TRUE]
    ELSE [status |-> o.status, msg |-> o.msg, threw |-> FALSE]

\* A stream that is ended without the message.
FramesAfterNone(c, msg) == c.frames

\* sendSSE(res, msg); res.end()   (res.end() alone for an empty acknowledgment)
FramesAfter(c, msg) ==
    IF c.streaming /\ msg.kind # "empty" THEN Append(c.frames, msg) ELSE c.frames

\* res.status(status).json(msg) goes through the wrapped res.json and is
\* recorded; res.status(204).end() and event-stream writes are not.
MetricsAfter(m, c, status, msg) ==
    IF ~c.streaming /\ msg.kind # "empty"
    THEN RecordJson(m, status, now - c.start, c.req)
    ELSE m

\* res.end() on an event stream
StreamsAfter(c) ==
    IF c.streaming THEN [streams EXCEPT ![c.stream].ended = TRUE] ELSE streams

\* The record of a finished request.
Finished(kind, stage, c, status, bodies, frames, threw, retryAfter) ==
    [kind |-> kind, stage |-> stage, req |-> c.req, streaming |-> c.streaming,
     status |-> status, bodies |-> bodies, frames |-> frames, threw |-> threw,
     invoked |-> c.invoked, validated |-> c.validated, outcome |-> c.outcome,
     session |-> c.session, found |-> c.found, stream |-> c.stream,
     createdSid |-> c.createdSid, rl |-> c.rl, retryAfter |-> retryAfter,
     duration |-> now - c.start,
     headerSid |-> IF c.streaming THEN c.session ELSE c.createdSid]

\* The handler's response for outcome o, as the record of the finished request.
FinishedDispatch(c, o) ==
    LET e == Effective(c, o)
    IN  Finished(IF c.req.method \in ReadOnlyEndpoints THEN "read" ELSE "post",
                 "dispatch", c,
                 IF c.streaming THEN 200 ELSE e.status,
                 IF c.streaming THEN <<>> ELSE <<e.msg>>,
                 FramesAfter(c, e.msg), e.threw, 0)

NoRequest ==
    Finished("none", "none",
             [req |-> BaseRequest, session |-> NoSession, createdSid |-> NoSession,
              streaming |-> FALSE, stream |-> 0, frames |-> <<>>,
              rl |-> NoRateHeaders, start |-> now, await |-> "none",
              validated |-> Empty, invoked |-> 0, outcome |-> "none",
              found |-> 0],
             0, <<>>, <<>>, FALSE, 0)

----------------------------------------------------------------------------
(* Event streams *)

StreamKeys == 1..MaxStreams

\* The next unused key of the model for a new event-stream connection.
FreshStream == Cardinality(DOMAIN streams) + 1

\* A new connection: setInterval(heartbeat, 30000) and req.on('close', ...).
NewStream(kind, sid) ==
    [kind |-> kind, sid |-> sid, hb |-> TRUE, hbDue |-> now + HEARTBEAT_INTERVAL,
     open |-> TRUE, ended |-> FALSE, beats |-> 0, late |-> FALSE]

StreamsAdd(key, stream) ==
    [k \in DOMAIN streams \cup {key} |-> IF k = key THEN stream ELSE streams[k]]

----------------------------------------------------------------------------
(* Initial state: the process right after the modules are loaded *)

EmptyMap == [k \in {} |-> 0]

InitialMetrics ==
    [total |-> 0, success |-> 0, error |-> 0, byTool |-> EmptyMap,
     byStatus |-> EmptyMap, sessionsTotal |-> 0, sessionsActive |-> 0,
     history |-> <<>>, avg |-> [sum |-> 0, n |-> 1]]

InitWith(environments) ==
    /\ now = 0
    /\ env \in environments
    /\ sessions = EmptyMap
    /\ issued = {}
    /\ rateLimitStore = EmptyMap
    /\ metrics = InitialMetrics
    /\ timers = [sessionSweep |-> SWEEP_INTERVAL, rateSweep |-> RATE_SWEEP_INTERVAL,
                 compaction |-> COMPACT_INTERVAL]
    /\ streams = EmptyMap
    /\ pending = <<>>
    /\ last = NoRequest
    /\ created = <<>>

Development == [NODE_ENV |-> "development", MCP_API_KEY |-> "unset"]

Production == [NODE_ENV |-> "production", MCP_API_KEY |-> "secret"]

ProductionNoKey == [NODE_ENV |-> "production", MCP_API_KEY |-> "unset"]

----------------------------------------------------------------------------
(* Actions *)

RemoveAt(s, i) == SubSeq(s, 1, i - 1) \o SubSeq(s, i + 1, Len(s))

\* The response of a middleware that short-circuits: res.status(status).json
\* with id req.body?.id || null and code -32000, before res.json is wrapped.
ShortCircuit(kind, stage, req, status, retryAfter) ==
    Finished(kind, stage,
             Context(req, NoSession, NoSession, FALSE, 0, <<>>, NoRateHeaders),
             status, <<ErrorMsg(IdOrNull(req.id), -32000, {})>>, <<>>, FALSE,
             retryAfter)

\* A body express.json cannot parse goes straight to errorHandlingMiddleware:
\* metrics.requests.error++ and a 500 with id null.
MalformedBody(req) ==
    /\ metrics' = [metrics EXCEPT !.error = @ + 1]
    /\ last' = Finished("post", "parse",
                        Context(req, NoSession, NoSession, FALSE, 0, <<>>,
                                NoRateHeaders),
                        500, <<ErrorMsg("null", -32603, DevData)>>, <<>>, FALSE, 0)
    /\ UNCHANGED <<sessions, issued, rateLimitStore, streams, pending, created>>

\* app.post('/') behind the middleware chain, up to the handler's first await.
Post(req) ==
    LET entry == RateEntryAfter(rateLimitStore, req.client, now)
        stage == ShortCircuitStage(req, entry)
        rl == IF RateLimitActive THEN RateHeaders(entry) ELSE NoRateHeaders
        m1 == [metrics EXCEPT !.total = @ + 1]
        sess == ResolveSession(sessions, req.sid)
        valid == EnvelopeValid(req)
        create == valid /\ sess = NoSession /\ req.method = "initialize"
        newId == RandomUUID(issued)
        sess2 == IF create THEN newId ELSE sess
        streaming == valid /\ Streaming(req)
        c == Context(req, sess2, IF create THEN newId ELSE NoSession, streaming,
                     IF streaming THEN FreshStream ELSE 0,
                     IF streaming THEN <<InitialFrame(req, sess2)>> ELSE <<>>, rl)
        o == IF valid THEN Handle(req, sess2)
             ELSE Respond(400, ErrorMsg(IdOrNull(req.id), -32600, {}))
        e == Effective(c, o)
        suspended ==
            [c EXCEPT !.await = o.await, !.validated = o.validated,
                      !.invoked = IF o.await = "tool" THEN 1 ELSE 0,
                      !.frames = IF streaming /\ o.await = "tool"
                                 THEN Append(@, Msg("absent", "progress", 0, {},
                                                    NoResult))
                                 ELSE @]
    IN  /\ UNCHANGED <<now, env, timers>>
        /\ IF ~req.bodyOk THEN MalformedBody(req)
           ELSE IF stage = "security"
           THEN /\ last' = ShortCircuit("post", "security", req, 401, 0)
                /\ UNCHANGED <<sessions, issued, rateLimitStore, metrics, streams,
                               pending, created>>
           ELSE IF stage = "ratelimit"
           THEN /\ rateLimitStore' = RateStoreSet(rateLimitStore, req.client, entry)
                /\ last' = ShortCircuit("post", "ratelimit", req, 429,
                                        RetryAfter(entry, now))
                /\ UNCHANGED <<sessions, issued, metrics, streams, pending, created>>
           ELSE /\ create => issued # SessionIds
                /\ streaming => FreshStream \in StreamKeys
                /\ o.kind = "await" => Len(pending) < MaxInFlight
                /\ rateLimitStore' =
                       IF RateLimitActive
                       THEN RateStoreSet(rateLimitStore, req.client, entry)
                       ELSE rateLimitStore
                /\ sessions' =
                       IF create
                       THEN SessionsSet(Touch(sessions, req.sid, now), newId,
                                        NewSession(now))
                       ELSE Touch(sessions, req.sid, now)
                /\ issued' = IF create THEN issued \cup {newId} ELSE issued
                /\ created' = IF create THEN Append(created, newId) ELSE created
                /\ streams' =
                       IF streaming
                       THEN StreamsAdd(FreshStream,
                                [NewStream("post", sess2)
                                    EXCEPT !.ended = (o.kind # "await")])
                       ELSE streams
                /\ IF o.kind = "await"
                   THEN /\ pending' = Append(pending, suspended)
                        /\ metrics' = m1
                        /\ last' = last
                   ELSE /\ pending' = pending
                        /\ metrics' = MetricsAfter(m1, c, e.status, e.msg)
                        /\ last' = FinishedDispatch(c, o)

\* The rest of a suspended handler, run when the awaited collaborator settles.
Resume(i, outcome) ==
    LET p == [pending[i] EXCEPT !.outcome = outcome]
        o == Continue(p, outcome)
        e == Effective(p, o)
    IN  /\ outcome \in Outcomes(p.await)
        /\ pending' = RemoveAt(pending, i)
        /\ metrics' = MetricsAfter(metrics, p, e.status, e.msg)
        /\ streams' = StreamsAfter(p)
        /\ last' = FinishedDispatch(p, o)
        /\ UNCHANGED <<now, env, sessions, issued, rateLimitStore, timers, created>>


\* The welcome frame of app.get('/').
WelcomeFrame(sid) ==
    Msg("absent", "welcome", 0, {},
        [tag |-> "welcome", sessionId |-> sid, tool |-> "none", args |-> Empty])

\* app.get('/') behind the middleware chain: a new session and a standing
\* event stream with its heartbeat.
GetRoot(req) ==
    LET entry == RateEntryAfter(rateLimitStore, req.client, now)
        stage == ShortCircuitStage(req, entry)
        rl == IF RateLimitActive THEN RateHeaders(entry) ELSE NoRateHeaders
        newId == RandomUUID(issued)
        stored == SessionsSet(Touch(sessions, req.sid, now), newId, NewSession(now))
        c == Context(req, newId, newId, TRUE, FreshStream, <<WelcomeFrame(newId)>>, rl)
    IN  /\ UNCHANGED <<now, env, timers, pending>>
        /\ IF stage = "security"
           THEN /\ last' = ShortCircuit("get", "security", req, 401, 0)
                /\ UNCHANGED <<sessions, issued, rateLimitStore, metrics, streams,
                               created>>
           ELSE IF stage = "ratelimit"
           THEN /\ rateLimitStore' = RateStoreSet(rateLimitStore, req.client, entry)
                /\ last' = ShortCircuit("get", "ratelimit", req, 429,
                                        RetryAfter(entry, now))
                /\ UNCHANGED <<sessions, issued, metrics, streams, created>>
           ELSE /\ issued # SessionIds
                /\ FreshStream \in StreamKeys
                /\ rateLimitStore' =
                       IF RateLimitActive
                       THEN RateStoreSet(rateLimitStore, req.client, entry)
                       ELSE rateLimitStore
                /\ sessions' = stored
                /\ issued' = issued \cup {newId}
                /\ created' = Append(created, newId)
                /\ metrics' = UpdateSessionMetrics([metrics EXCEPT !.total = @ + 1],
                                  Cardinality(DOMAIN stored),
                                  Cardinality(DOMAIN stored))
                /\ streams' = StreamsAdd(FreshStream, NewStream("get", newId))
                /\ last' = Finished("get", "dispatch", c, 200, <<>>, c.frames,
                                    FALSE, 0)

\* The session figures in the body of GET /metrics:
\* { ...metricsData.sessions, active: sessions.size }
SessionFigures(m, store) ==
    [total |-> m.sessionsTotal, active |-> Cardinality(DOMAIN store)]

\* The body of a snapshot endpoint answered in the handler itself.
SnapshotBody(req, m, store) ==
    IF req.method = "GET /metrics"
    THEN Msg("absent", "json", 0, {},
             [tag |-> req.method, sessionId |-> NoSession, tool |-> "none",
              args |-> Empty, sessions |-> SessionFigures(m, store)])
    ELSE SnapshotMsg(req.method)

\* app.get('/health'), '/info', '/metrics', '/tools', '/resources', '/prompts'
\* behind the middleware chain: res.json with a snapshot, for the last two
\* after the await on the collaborator.
GetEndpoint(req) ==
    LET entry == RateEntryAfter(rateLimitStore, req.client, now)
        stage == ShortCircuitStage(req, entry)
        rl == IF RateLimitActive THEN RateHeaders(entry) ELSE NoRateHeaders
        m1 == [metrics EXCEPT !.total = @ + 1]
        c == Context(req, ResolveSession(sessions, req.sid), NoSession, FALSE, 0,
                     <<>>, rl)
        o == IF req.method \in AsyncEndpoints
             THEN Await(req.method, Empty)
             ELSE Respond(200, SnapshotBody(req, m1, sessions))
    IN  /\ req.method \in ReadOnlyEndpoints
        /\ UNCHANGED <<now, env, timers, issued, streams, created>>
        /\ IF stage = "security"
           THEN /\ last' = ShortCircuit("read", "security", req, 401, 0)
                /\ UNCHANGED <<sessions, rateLimitStore, metrics, pending>>
           ELSE IF stage = "ratelimit"
           THEN /\ rateLimitStore' = RateStoreSet(rateLimitStore, req.client, entry)
                /\ last' = ShortCircuit("read", "ratelimit", req, 429,
                                        RetryAfter(entry, now))
                /\ UNCHANGED <<sessions, metrics, pending>>
           ELSE /\ o.kind = "await" => Len(pending) < MaxInFlight
                /\ rateLimitStore' =
                       IF RateLimitActive
                       THEN RateStoreSet(rateLimitStore, req.client, entry)
                       ELSE rateLimitStore
                /\ sessions' = Touch(sessions, req.sid, now)
                /\ IF o.kind = "await"
                   THEN /\ pending' = Append(pending, [c EXCEPT !.await = o.await])
                        /\ metrics' = m1
                        /\ last' = last
                   ELSE /\ pending' = pending
                        /\ metrics' = MetricsAfter(m1, c, o.status, o.msg)
                        /\ last' = FinishedDispatch(c, o)

\* The heartbeat timer of stream k fires: res.write(':heartbeat\n\n').  `late`
\* records a heartbeat written after the stream was ended.
Heartbeat(k) ==
    /\ k \in DOMAIN streams
    /\ streams[k].hb
    /\ now >= streams[k].hbDue
    /\ streams' = [streams EXCEPT ![k].hbDue = now + HEARTBEAT_INTERVAL,
                                  ![k].beats = IF streams[k].ended THEN @ ELSE @ + 1,
                                  ![k].late = @ \/ streams[k].ended]
    /\ UNCHANGED <<now, env, sessions, issued, rateLimitStore, metrics, timers,
                   pending, last, created>>

\* A close listener that cancels the timer and keeps the session.
CloseTimerOnly(k) ==
    /\ k \in DOMAIN streams
    /\ streams[k].open
    /\ streams' = [streams EXCEPT ![k].open = FALSE, ![k].hb = FALSE]
    /\ UNCHANGED <<now, env, sessions, metrics, issued, rateLimitStore, timers,
                   pending, last, created>>

\* The request's 'close' event: clearInterval(heartbeat); the GET / listener
\* also deletes the session of the connection and reports the session counts.
Close(k) ==
    /\ k \in DOMAIN streams
    /\ streams[k].open
    /\ streams' = [streams EXCEPT ![k].open = FALSE, ![k].hb = FALSE]
    /\ IF streams[k].kind = "get"
       THEN LET kept == SessionsDelete(sessions, streams[k].sid)
            IN  /\ sessions' = kept
                /\ metrics' = UpdateSessionMetrics(metrics,
                                  Cardinality(DOMAIN kept), Cardinality(DOMAIN kept))
       ELSE UNCHANGED <<sessions, metrics>>
    /\ UNCHANGED <<now, env, issued, rateLimitStore, timers, pending, last, created>>

\* The session sweep timer fires.
Sweep ==
    LET kept == SweepSessions(sessions, now)
        removedCount == Cardinality(DOMAIN sessions) - Cardinality(DOMAIN kept)
    IN  /\ now >= timers.sessionSweep
        /\ sessions' = kept
        /\ metrics' = UpdateSessionMetrics(metrics, Cardinality(DOMAIN kept),
                                           Cardinality(DOMAIN kept) + removedCount)
        /\ timers' = [timers EXCEPT !.sessionSweep = now + SWEEP_INTERVAL]
        /\ UNCHANGED <<now, env, issued, rateLimitStore, streams, pending, last,
                       created>>

\* The rate-limit sweep timer fires.
RateSweep ==
    /\ now >= timers.rateSweep
    /\ rateLimitStore' = SweepRateLimits(rateLimitStore, now)
    /\ timers' = [timers EXCEPT !.rateSweep = now + RATE_SWEEP_INTERVAL]
    /\ UNCHANGED <<now, env, sessions, issued, metrics, streams, pending, last,
                   created>>

\* The response-time history cleanup timer fires.
Compact ==
    /\ now >= timers.compaction
    /\ metrics' = CompactMetrics(metrics)
    /\ timers' = [timers EXCEPT !.compaction = now + COMPACT_INTERVAL]
    /\ UNCHANGED <<now, env, sessions, issued, rateLimitStore, streams, pending, last,
                   created>>

\* Time passes: the clock moves on to a later instant t.
Advance(t) ==
    /\ t > now
    /\ now' = t
    /\ UNCHANGED <<env, sessions, issued, rateLimitStore, metrics, timers, streams,
                   pending, last, created>>

----------------------------------------------------------------------------
(* Specification of the dispatcher: any request shape, few requests *)

With(field, values) == { [BaseRequest EXCEPT ![field] = v] : v \in values }

ToolCalls ==
    { [BaseRequest EXCEPT !.method = "tools/call", !.name = n, !.args = a]
        : n \in RegistryNames \cup {"does_not_exist", "constructor", "absent"},
          a \in ArgInputs }

ReadRequests ==
    { [BaseRequest EXCEPT !.method = "resources/read", !.uri = u, !.userAgent = ua,
                          !.accept = ac]
        : u \in {"absent", "frappe://schema/User"}, ua \in {"Cursor", "other"},
          ac \in {"application/json", "text/event-stream"} }
      \cup
    { [BaseRequest EXCEPT !.method = "resources/read", !.accept = ac, !.id = i,
                          !.params = pa, !.uri = "frappe://schema/User"]
        : ac \in {"application/json", "text/event-stream"},
          i \in {"zero", "absent"}, pa \in {"object", "null"} }

OtherRequests ==
    With("method", Methods \ {"tools/call", "resources/read"})
      \cup
    { [BaseRequest EXCEPT !.method = m, !.accept = "text/event-stream"]
        : m \in {"initialize", "prompts/run", "resources/read/x",
                 "notifications/message"} }
      \cup
    { [BaseRequest EXCEPT !.method = m, !.id = i]
        : m \in {"notifications/message", "notifications/initialized"},
          i \in {"zero", "empty", "absent"} }
      \cup
    { [BaseRequest EXCEPT !.method = m, !.sid = sid]
        : m \in {"initialize", "tools/list"}, sid \in {1, 2} }

InvalidEnvelopes ==
    { [BaseRequest EXCEPT !.jsonrpc = "1.0", !.method = m, !.id = i, !.accept = ac,
                          !.name = "ping", !.uri = "frappe://schema/User"]
        : m \in {"initialize", "tools/call", "resources/read"},
          i \in {"one", "zero"},
          ac \in {"application/json", "text/event-stream"} }

NegotiationRequests ==
    { [BaseRequest EXCEPT !.method = m, !.userAgent = ua, !.accept = ac,
                          !.uri = "frappe://schema/User"]
        : m \in {"resources/read", "prompts/run", "tools/list"},
          ua \in {"Mozilla/5.0 Cursor/1.2", "absent"},
          ac \in {"application/json, text/event-stream", "absent"} }

DispatchRequests ==
    ToolCalls \cup ReadRequests \cup OtherRequests \cup InvalidEnvelopes
        \cup NegotiationRequests
        \cup { [BaseRequest EXCEPT !.method = "prompts/get", !.name = "analyze_doctype"],
               [BaseRequest EXCEPT !.method = "tools/call", !.params = "null"],
               [BaseRequest EXCEPT !.bodyOk = FALSE] }

Init == InitWith({Development})

\* The counters every request raises are capped.
Capped(limit) == metrics.total < limit /\ metrics.error < limit

PostAny == \E req \in DispatchRequests : Capped(MaxRequests) /\ Post(req)

ResumeAny == \E i \in 1..Len(pending) : \E outcome \in {"ok", "absent", "throw", "zod"} :
                 Resume(i, outcome)

HeartbeatAny == \E k \in StreamKeys : Heartbeat(k)

CloseAny == \E k \in StreamKeys : Close(k)

Next ==
    \/ PostAny
    \/ ResumeAny
    \/ CloseAny

Spec == Init /\ [][Next]_vars

----------------------------------------------------------------------------
(* Properties of the dispatcher, checked under Spec *)

\* The request that finished last went through app.post('/').
Dispatched == last.kind = "post" /\ last.stage = "dispatch"

\* The last message written for the finished request.
Terminal ==
    IF last.streaming THEN last.frames[Len(last.frames)] ELSE last.bodies[1]

\* The frames of the finished request that answer its id with a result or an error.
AnsweringFrames ==
    { i \in 1..Len(last.frames) :
        /\ last.frames[i].kind \in {"result", "error"}
        /\ last.frames[i].id \in {last.req.id, IdOrNull(last.req.id)} }

\* C1: every finished POST / request got exactly one terminal response: one
\* buffered body, or exactly one frame that carries its id with a result or
\* an error.
C1_ExactlyOneTerminal ==
    last.kind = "post" =>
        IF last.streaming THEN Cardinality(AnsweringFrames) = 1
                          ELSE Len(last.bodies) = 1 /\ last.frames = <<>>

\* C2: a tools/call whose name is no key of the registry, or is missing, is
\* answered with -32601 carrying all registry names, and no handler runs.
C2_UnknownTool ==
    (/\ Dispatched
     /\ last.req.jsonrpc = "2.0"
     /\ last.req.method = "tools/call"
     /\ ToolName(last.req) \notin RegistryNames)
        => /\ Terminal.kind = "error"
           /\ Terminal.code = -32601
           /\ Terminal.data = RegistryNames
           /\ last.invoked = 0

\* What each tool's declared input contract accepts, read off the schemas.
Conforms(toolName, toolArgs) ==
    /\ toolArgs.kind # "null"
    /\ toolName = "check_doctype_exists" =>
           "doctype" \in DOMAIN toolArgs.obj /\ toolArgs.obj["doctype"] = "string"
    /\ toolName = "find_doctypes" =>
           /\ "limit" \in DOMAIN toolArgs.obj => toolArgs.obj["limit"] = "number"
           /\ "module" \in DOMAIN toolArgs.obj => toolArgs.obj["module"] = "string"

\* A handler ran for request record r only for a registered tool whose
\* arguments conform, and at most once.
Gated(r) ==
    /\ r.invoked \in {0, 1}
    /\ r.invoked = 1 =>
           /\ r.req.method = "tools/call"
           /\ ToolName(r.req) \in RegistryNames
           /\ Conforms(ToolName(r.req), ToolArgs(r.req))

\* C3: validation gates the handler: a handler runs at most once per tools/call
\* and only for conforming arguments; a known tool called with arguments that
\* violate its schema is answered with -32602 and the violations, and its
\* handler does not run.
C3_ValidationGate ==
    /\ Gated(last)
    /\ \A i \in 1..Len(pending) : Gated(pending[i])
    /\ (/\ Dispatched
        /\ last.req.jsonrpc = "2.0"
        /\ last.req.method = "tools/call"
        /\ ToolName(last.req) \in RegistryNames
        /\ ~Conforms(ToolName(last.req), ToolArgs(last.req)))
           => /\ Terminal.kind = "error"
              /\ Terminal.code = -32602
              /\ Terminal.data # {}
              /\ last.invoked = 0

C3_Witness ==
    /\ Dispatched
    /\ last.req.method = "tools/call"
    /\ last.req.name = "check_doctype_exists"
    /\ last.req.args.kind = "object"
    /\ last.req.args.obj = [k \in {"doctype"} |-> "number"]
    /\ Terminal.code = -32602
    /\ Terminal.data = {"doctype"}

\* C4: after a validated tools/call, a handler failure is answered with -32603,
\* a validation-class failure (ZodError) with -32602, and a handler result is
\* returned as the JSON-RPC result as it is.
C4_HandlerOutcome ==
    (Dispatched /\ last.invoked = 1)
        => /\ last.outcome = "throw" => Terminal.kind = "error" /\ Terminal.code = -32603
           /\ last.outcome = "zod" => Terminal.kind = "error" /\ Terminal.code = -32602
           /\ last.outcome = "ok" =>
                  /\ Terminal.kind = "result"
                  /\ Terminal.id = last.req.id
                  /\ Terminal.result.tag = "content"
                  /\ Terminal.result.tool = last.req.name
                  /\ Terminal.result.args = last.validated

C4_Witness ==
    /\ Dispatched
    /\ last.invoked = 1
    /\ last.outcome = "zod"
    /\ Terminal.code = -32602

\* A dispatched request whose envelope tag is not "2.0" finished in this step.
InvalidEnvelopeStep ==
    /\ metrics'.total = metrics.total + 1
    /\ pending' = pending
    /\ last'.kind = "post"
    /\ last'.stage = "dispatch"
    /\ last'.req.jsonrpc # "2.0"

\* C5: an envelope whose jsonrpc is not "2.0" is answered with -32600 whatever
\* its method and params are: no handler runs, no session is created and no
\* stream is started.
C5_InvalidEnvelope ==
    /\ [](Dispatched /\ last.req.jsonrpc # "2.0"
            => /\ ~last.streaming
               /\ last.frames = <<>>
               /\ last.status = 400
               /\ last.bodies = <<ErrorMsg(IdOrNull(last.req.id), -32600, {})>>
               /\ last.invoked = 0
               /\ last.createdSid = NoSession)
    /\ [][InvalidEnvelopeStep
            => /\ DOMAIN sessions' = DOMAIN sessions
               /\ issued' = issued
               /\ streams' = streams]_vars

C5_Witness ==
    /\ Dispatched
    /\ last.req.jsonrpc = "1.0"
    /\ last.req.method = "resources/read"
    /\ last.req.accept = "text/event-stream"
    /\ last.status = 400

\* The payload the handler writes for the finished request r when the response
\* is buffered: the same request, session and collaborator outcome, without
\* the event stream.
BufferedPayload(r) ==
    LET first == Handle(r.req, r.session)
        o == IF first.kind = "await"
             THEN Continue([req |-> r.req, await |-> first.await,
                            validated |-> first.validated], r.outcome)
             ELSE first
    IN  Effective([streaming |-> FALSE, req |-> r.req], o).msg

\* C12: the payload a streamed request delivers is the one the same request
\* with the same collaborator outcome delivers buffered, and it is the only
\* frame of the stream that carries a result or an error for the request's id.
C12_ModeEquivalence ==
    (Dispatched /\ last.req.jsonrpc = "2.0" /\ last.streaming)
        => /\ Terminal = BufferedPayload(last)
           /\ AnsweringFrames = {Len(last.frames)}

\* The three checks on request req, as the claim words them.
Denylisted(req) == req.userAgent \in {"Cursor", "Mozilla/5.0 Cursor/1.2"}

Allowlisted(req) == req.method \in {"resources/read", "resources/read/x", "prompts/run"}

DeclaresEventStream(req) ==
    req.accept \in {"text/event-stream", "application/json, text/event-stream"}

Negotiated(req) == ~Denylisted(req) /\ Allowlisted(req) /\ DeclaresEventStream(req)

\* C13 as stated: every dispatched request is streamed exactly when the three
\* checks say so, and every other one gets exactly one buffered JSON body and
\* no frame.
C13_AsStated ==
    Dispatched
        => /\ last.streaming = Negotiated(last.req)
           /\ ~last.streaming
                  => /\ Len(last.bodies) = 1
                     /\ last.bodies[1].kind \in {"result", "error"}
                     /\ last.frames = <<>>

\* C13, amended: a request whose envelope is accepted is streamed exactly when
\* its user agent is not on the denylist, its method starts with an
\* allowlisted prefix and its Accept header includes text/event-stream; a
\* rejected envelope is always buffered.  A buffered request gets one response
\* with no frame: one JSON body, or no body when it is a 204 acknowledgment.
\* An event stream with its heartbeat timer is opened only for streamed requests.
C13_DeliveryMode ==
    /\ [](Dispatched
            => /\ last.streaming = (last.req.jsonrpc = "2.0" /\ Negotiated(last.req))
               /\ ~last.streaming
                      => /\ Len(last.bodies) = 1
                         /\ last.frames = <<>>
                         /\ (last.bodies[1].kind = "empty") = (last.status = 204)
                         /\ last.bodies[1].kind \in {"result", "error", "empty"})
    /\ [](\A i \in 1..Len(pending) :
              pending[i].streaming = Negotiated(pending[i].req))
    /\ [][DOMAIN streams' # DOMAIN streams
            => IF Len(pending') > Len(pending)
               THEN pending'[Len(pending')].streaming
               ELSE last'.kind = "post" /\ last'.streaming]_vars

\* A client on the denylist asked for an event stream on a streamable method
\* and got one buffered body.
C13_Witness ==
    /\ Dispatched
    /\ last.req.userAgent = "Mozilla/5.0 Cursor/1.2"
    /\ last.req.method = "resources/read"
    /\ last.req.accept = "application/json, text/event-stream"
    /\ ~last.streaming
    /\ last.status = 200
    /\ streams = EmptyMap

RECURSIVE SumCounts(_, _)
\* The sum of counts[k] over the keys.
SumCounts(counts, keys) ==
    IF keys = {} THEN 0
    ELSE LET k == CHOOSE x \in keys : TRUE
         IN  counts[k] + SumCounts(counts, keys \ {k})

Recorded(m) == SumCounts(m.byStatus, DOMAIN m.byStatus)

\* A request that went through the metrics stage was answered in this step:
\* by the synchronous part of the handler, or after its await.
AnsweredStep ==
    \/ metrics'.total = metrics.total + 1 /\ pending' = pending
    \/ Len(pending') < Len(pending)

\* C15: every answered request is recorded once: it adds one to the sum of
\* the byStatus counts and one to success + error.
C15_MetricsConservation ==
    [][AnsweredStep
         => /\ Recorded(metrics') = Recorded(metrics) + 1
            /\ metrics'.success + metrics'.error
                   = metrics.success + metrics.error + 1]_vars

\* C20: a notifications/message whose envelope has an id field, whatever its
\* value, is answered with error -32600; only one without an id field gets
\* the empty acknowledgment, which carries neither result nor error.
C20_NotificationWithId ==
    (Dispatched /\ last.req.jsonrpc = "2.0"
                /\ last.req.method = "notifications/message")
        => IF last.req.id # "absent"
           THEN Terminal.kind = "error" /\ Terminal.code = -32600
           ELSE Terminal.kind = "empty" /\ last.status = 204

\* The method names the dispatcher knows.
KnownMethods ==
    {"initialize", "tools/list", "tools/call", "resources/list", "resources/read",
     "prompts/list", "prompts/get", "notifications/initialized",
     "notifications/message"}

\* C21: a request whose method is a string outside the known set, or is
\* missing, is answered with -32601 and neither a handler nor a collaborator
\* is called for it; notifications/initialized is acknowledged with an empty
\* response, without result and without error.
C21_RoutingClosed ==
    (Dispatched /\ last.req.jsonrpc = "2.0")
        => /\ last.req.method \notin KnownMethods
                  => /\ Terminal.kind = "error"
                     /\ Terminal.code = -32601
                     /\ Cardinality({i \in 1..Len(last.frames) :
                                        last.frames[i].kind = "error"})
                            = (IF last.streaming THEN 1 ELSE 0)
                     /\ last.invoked = 0
                     /\ last.outcome = "none"
           /\ last.req.method = "notifications/initialized"
                  => /\ ~last.streaming
                     /\ last.status = 204
                     /\ last.bodies = <<EmptyMsg>>
                     /\ last.invoked = 0
                     /\ last.outcome = "none"

\* A request without a method field was answered method-not-found.
C21_Witness ==
    /\ Dispatched
    /\ last.req.method = "absent"
    /\ last.status = 404
    /\ Terminal.code = -32601

\* C22: for the four delegating methods, a missing required parameter is
\* answered -32602 before any collaborator is called, a lookup that finds
\* nothing -32601, an exception raised in the collaborator -32603, and
\* anything else is a result.
C22_CollaboratorErrors ==
    (/\ Dispatched
     /\ last.req.jsonrpc = "2.0"
     /\ last.req.params # "null"
     /\ last.req.method \in {"resources/list", "resources/read", "prompts/list",
                              "prompts/get"})
        => LET missing ==
                   \/ last.req.method = "resources/read"
                      /\ (last.req.params = "absent" \/ last.req.uri = "absent")
                   \/ last.req.method = "prompts/get"
                      /\ (last.req.params = "absent" \/ last.req.name = "absent")
           IN  /\ missing => /\ Terminal.kind = "error"
                              /\ Terminal.code = -32602
                              /\ last.outcome = "none"
               /\ ~missing => last.outcome # "none"
               /\ last.outcome = "absent"
                      => Terminal.kind = "error" /\ Terminal.code = -32601
               /\ last.outcome = "throw"
                      => Terminal.kind = "error" /\ Terminal.code = -32603
               /\ last.outcome = "ok" => Terminal.kind = "result"

\* The error frames written for the finished request.
ErrorFrames == {i \in 1..Len(last.frames) : last.frames[i].kind = "error"}

\* C23: a buffered response that carries an error has a status outside 2xx,
\* one that carries a result has a 2xx status; a streamed response has status
\* 200, no body, and an error in it is one frame, the last one.
C23_StatusClass ==
    last.kind = "post"
        => IF last.streaming
           THEN /\ last.status = 200
                /\ last.bodies = <<>>
                /\ Terminal.kind = "error" => ErrorFrames = {Len(last.frames)}
                /\ Terminal.kind # "error" => ErrorFrames = {}
           ELSE \A i \in 1..Len(last.bodies) :
                    /\ last.bodies[i].kind = "error"
                           => last.status >= 400 /\ last.status < 600
                    /\ last.bodies[i].kind = "result"
                           => last.status >= 200 /\ last.status < 300

\* A streamed request whose lookup found nothing: status 200, error -32601 in
\* the terminal frame.
C23_Witness ==
    /\ Dispatched
    /\ last.streaming
    /\ last.outcome = "absent"
    /\ last.status = 200
    /\ Terminal.kind = "error"
    /\ Terminal.code = -32601

\* C24: when an exception reaches the outer catch of the POST handler after
\* the stream's headers were sent, the error -32603 is written as one last
\* frame and the stream is ended, with no body and no new status; when no
\* headers were sent, the response is one body with status 500.
C24_OuterCatch ==
    (Dispatched /\ last.threw)
        => IF last.streaming
           THEN /\ last.status = 200
                /\ last.bodies = <<>>
                /\ Terminal = ExceptionMsg(IdOrNull(last.req.id), -32603, {})
                /\ ErrorFrames = {Len(last.frames)}
                /\ streams[last.stream].ended
           ELSE /\ last.status = 500
                /\ last.bodies = <<ExceptionMsg(IdOrNull(last.req.id), -32603, {})>>
                /\ last.frames = <<>>

\* A streamed resources/read with params null threw after the initial frame.
C24_Witness ==
    /\ Dispatched
    /\ last.threw
    /\ last.streaming
    /\ last.req.params = "null"
    /\ Len(last.frames) = 2

\* The names listed in the result of a tools/list.
ListedNames(result) == {result.tools[i].name : i \in 1..Len(result.tools)}

\* C29: the result of tools/list has exactly one entry per operation of the
\* registry, each with name, description, inputSchema and a category that has
\* metadata in the result; totalTools is the length of the list and the size
\* of the registry; and a tools/call that names a listed tool is not answered
\* "tool not found".
C29_ToolsList ==
    /\ (Dispatched /\ last.req.method = "tools/list")
           => LET r == Terminal.result
              IN  /\ Terminal.kind = "result"
                  /\ ListedNames(r) = RegistryNames
                  /\ Len(r.tools) = Cardinality(RegistryNames)
                  /\ r.totalTools = Len(r.tools)
                  /\ \A i \in 1..Len(r.tools) :
                         /\ {"name", "description", "inputSchema", "category"}
                                \subseteq DOMAIN r.tools[i]
                         /\ r.tools[i].category \in DOMAIN r.categories
                         /\ ToolsCall([BaseRequest EXCEPT
                                          !.method = "tools/call",
                                          !.name = r.tools[i].name]).status # 404
    /\ (Dispatched /\ last.req.method = "tools/call" /\ last.req.params = "object"
           /\ last.req.name \in ListedNames(ToolsListResult))
           => ~(Terminal.kind = "error" /\ Terminal.code = -32601)

\* A tools/list answered with the whole registry.
C29_Witness ==
    /\ Dispatched
    /\ last.req.method = "tools/list"
    /\ Terminal.kind = "result"
    /\ Terminal.result.totalTools = Cardinality(RegistryNames)
    /\ Terminal.result.tools[2].category = "helper"

\* metrics.requests.byTool[name] || 0
CountOf(counts, name) == IF name \in DOMAIN counts THEN counts[name] ELSE 0

UndeclaredKeys(req) == DOMAIN req.args.obj \ DOMAIN ToolSchema(req.name)

\* The declared keys of the request's arguments are as the schema asks: each
\* present one has the declared type, each missing one is optional.
DeclaredKeysValid(req) ==
    \A k \in DOMAIN ToolSchema(req.name) :
        IF k \in DOMAIN req.args.obj
        THEN req.args.obj[k] = ToolSchema(req.name)[k].type
        ELSE ToolSchema(req.name)[k].optional

\* C35: a tools/call of a registered tool whose arguments object has keys the
\* schema does not declare, and whose declared keys are valid, is not
\* rejected: the handler is invoked once, with the declared keys only, and
\* its result is the response.
C35_UndeclaredKeys ==
    (/\ Dispatched
     /\ last.req.jsonrpc = "2.0"
     /\ last.req.method = "tools/call"
     /\ last.req.params = "object"
     /\ last.req.name \in RegistryNames
     /\ last.req.args.kind = "object"
     /\ UndeclaredKeys(last.req) # {}
     /\ DeclaredKeysValid(last.req))
        => /\ last.invoked = 1
           /\ DOMAIN last.validated = DOMAIN last.req.args.obj \ UndeclaredKeys(last.req)
           /\ \A k \in DOMAIN last.validated : last.validated[k] = last.req.args.obj[k]
           /\ last.outcome = "ok"
                  => /\ Terminal.kind = "result"
                     /\ Terminal.result.tool = last.req.name
                     /\ Terminal.result.args = last.validated

\* get_module_list called with { random_string: ... } returned its result.
C35_Witness ==
    /\ Dispatched
    /\ last.req.method = "tools/call"
    /\ last.req.name = "get_module_list"
    /\ last.req.args.kind = "object"
    /\ DOMAIN last.req.args.obj = {"random_string"}
    /\ last.invoked = 1
    /\ last.validated = Empty
    /\ Terminal.kind = "result"

----------------------------------------------------------------------------
(* Specification of the session store: creations, touches, disconnects and
   sweeps interleaved over a clock that crosses the session timeout *)

MaxSessionRequests == 3

SessionTimes ==
    {0, SWEEP_INTERVAL, SESSION_TIMEOUT, SESSION_TIMEOUT + 1,
     SESSION_TIMEOUT + SWEEP_INTERVAL + 1}

SessionRequests ==
    { [BaseRequest EXCEPT !.method = m, !.sid = sid]
        : m \in {"initialize", "tools/list"}, sid \in {NoSession} \cup SessionIds }
      \cup {[BaseRequest EXCEPT !.jsonrpc = "1.0"]}

GetRequest == [BaseRequest EXCEPT !.method = "GET /", !.id = "absent"]

PostSession ==
    \E req \in SessionRequests : Capped(MaxSessionRequests) /\ Post(req)

GetSession == Capped(MaxSessionRequests) /\ GetRoot(GetRequest)

AdvanceSession == \E t \in SessionTimes : Advance(t)

NextSessions ==
    \/ PostSession
    \/ GetSession
    \/ CloseAny
    \/ Sweep
    \/ AdvanceSession

SpecSessions == Init /\ [][NextSessions]_vars

\* The session sweep ran in this step.
SweepStep == timers'.sessionSweep # timers.sessionSweep

\* The session sweep ran at the current instant.
JustSwept == timers.sessionSweep = now + SWEEP_INTERVAL

Idle(id) == now - sessions[id].lastActivity

\* C6: a sweep leaves every session whose idle time, by its lastActivity at
\* the moment of the sweep, is at most the timeout.
C6_SweepKeepsActive ==
    [][SweepStep =>
         \A id \in DOMAIN sessions :
             Idle(id) <= SESSION_TIMEOUT
                 => id \in DOMAIN sessions' /\ sessions'[id] = sessions[id]]_vars

\* A session older than the timeout that a later request touched survived a sweep.
C6_Witness ==
    /\ JustSwept
    /\ \E id \in DOMAIN sessions :
           /\ now - sessions[id].createdAt > SESSION_TIMEOUT
           /\ Idle(id) <= SESSION_TIMEOUT
           /\ sessions[id].lastActivity > sessions[id].createdAt

\* C7: a sweep removes, in the same tick, every session whose idle time
\* exceeds the timeout.
C7_SweepRemovesExpired ==
    [][SweepStep =>
         \A id \in DOMAIN sessions :
             Idle(id) > SESSION_TIMEOUT => id \notin DOMAIN sessions']_vars

\* One sweep removed two sessions.
C7_Witness ==
    /\ JustSwept
    /\ metrics.sessionsTotal - metrics.sessionsActive >= 2
    /\ Cardinality(DOMAIN sessions) = metrics.sessionsActive

\* C8: the ids of all sessions ever created are distinct, and a creation
\* never replaces an entry of the store.
C8_UniqueIds ==
    /\ [](\A i, j \in 1..Len(created) : i # j => created[i] # created[j])
    /\ [][Len(created') > Len(created)
            => created'[Len(created')] \notin DOMAIN sessions]_vars

\* Sessions were created by POST initialize and by GET /.
C8_Witness ==
    /\ Len(created) >= 2
    /\ \E k \in DOMAIN streams : streams[k].kind = "get"
    /\ last.kind = "post"
    /\ last.createdSid # NoSession

\* C9: no step moves a session's lastActivity back, and lastActivity is never
\* before createdAt.
C9_LastActivityMonotone ==
    /\ [](\A id \in DOMAIN sessions :
              sessions[id].lastActivity >= sessions[id].createdAt)
    /\ [][\A id \in DOMAIN sessions \cap DOMAIN sessions' :
              sessions'[id].lastActivity >= sessions[id].lastActivity]_vars

\* A session was touched after the instant it was created.
C9_Witness ==
    \E id \in DOMAIN sessions :
        /\ sessions[id].createdAt > 0
        /\ sessions[id].lastActivity > sessions[id].createdAt

----------------------------------------------------------------------------
(* Specification of the rate limiter: guarded mode, one client that goes past
   the ceiling within a window and into the next window, and a second client *)

RateTimes == {0, 1500, RATE_LIMIT_WINDOW, RATE_LIMIT_WINDOW + 1}

RateRequests ==
    { [BaseRequest EXCEPT !.method = "tools/list", !.client = c, !.xApiKey = "secret"]
        : c \in {"a", "b"} }
      \cup {[BaseRequest EXCEPT !.method = "tools/list", !.xApiKey = "wrong"]}

\* The requests counted so far in the client's running window.
Counted(clientId) == RateEntry(rateLimitStore, clientId, now).count

InitRate == InitWith({Production})

PostRate ==
    \E req \in RateRequests :
        /\ Capped(RATE_LIMIT_MAX_REQUESTS + MaxOver)
        /\ Counted(req.client) <
               (IF req.client = "a" THEN RATE_LIMIT_MAX_REQUESTS + MaxOver
                                    ELSE MaxOtherRequests)
        /\ Post(req)

AdvanceRate == \E t \in RateTimes : Advance(t)

NextRate ==
    \/ PostRate
    \/ RateSweep
    \/ AdvanceRate

SpecRate == InitRate /\ [][NextRate]_vars

\* A request went through the rate-limiting stage in this step.
RateStep == rateLimitStore' # rateLimitStore /\ timers' = timers

\* C10: in guarded mode a request passes the rate limiter when fewer than 100
\* requests of its client were counted before it in the running window; any
\* later request of the window is answered 429 with error -32000 and a
\* retryAfter that is the number of seconds left in the window, at most 60.
C10_RateLimitBoundary ==
    [][RateStep =>
         LET c == last'.req.client
             running == c \in DOMAIN rateLimitStore
                        /\ now <= rateLimitStore[c].resetTime
             before == IF running THEN rateLimitStore[c].count ELSE 0
             windowEnd == IF running THEN rateLimitStore[c].resetTime
                          ELSE now + RATE_LIMIT_WINDOW
             left == windowEnd - now
         IN  /\ env.NODE_ENV = "production"
             /\ rateLimitStore'[c].count = before + 1
             /\ rateLimitStore'[c].resetTime = windowEnd
             /\ before < RATE_LIMIT_MAX_REQUESTS => last'.stage = "dispatch"
             /\ before >= RATE_LIMIT_MAX_REQUESTS =>
                    /\ last'.stage = "ratelimit"
                    /\ last'.status = 429
                    /\ last'.bodies[1].kind = "error"
                    /\ last'.bodies[1].code = -32000
                    /\ last'.retryAfter \in 0..60
                    /\ last'.retryAfter * 1000 >= left
                    /\ (last'.retryAfter - 1) * 1000 < left]_vars

\* The 101st request of a window, sent 1.5 s into it, was rejected.
C10_Witness ==
    /\ last.stage = "ratelimit"
    /\ last.req.client = "a"
    /\ "a" \in DOMAIN rateLimitStore
    /\ rateLimitStore["a"].count = RATE_LIMIT_MAX_REQUESTS + 1
    /\ last.retryAfter = 59
    /\ metrics.total = RATE_LIMIT_MAX_REQUESTS

\* C11: a request that passes security after its client's window has elapsed,
\* or when the client has no entry (never seen, or deleted by the sweep),
\* starts a fresh window: it passes the rate limiter, its count is 1 and its
\* resetTime is now + 60 s, whatever count the elapsed window had reached.
C11_WindowReset ==
    [][RateStep =>
         LET c == last'.req.client
         IN  (c \notin DOMAIN rateLimitStore \/ now > rateLimitStore[c].resetTime)
                 => /\ rateLimitStore'[c] =
                           [count |-> 1, resetTime |-> now + RATE_LIMIT_WINDOW]
                    /\ last'.stage = "dispatch"
                    /\ last'.rl.set
                    /\ last'.rl.remaining = RATE_LIMIT_MAX_REQUESTS - 1]_vars

\* A client that was being rejected when its window ended was let through in
\* the next window, before any sweep ran: the request found the old entry.
C11_Witness ==
    /\ last.stage = "dispatch"
    /\ last.found > RATE_LIMIT_MAX_REQUESTS
    /\ timers.rateSweep = RATE_SWEEP_INTERVAL
    /\ now > RATE_LIMIT_WINDOW
    /\ rateLimitStore[last.req.client] =
           [count |-> 1, resetTime |-> now + RATE_LIMIT_WINDOW]

\* C27: in guarded mode every response of a request that went through the
\* rate-limiting stage, rejected or passed on, carries the headers limit,
\* remaining = max(0, limit - count) and reset = the end of the client's
\* window (in seconds).
C27_RateHeaders ==
    [][RateStep =>
         LET entry == rateLimitStore'[last'.req.client]
             left == RATE_LIMIT_MAX_REQUESTS - entry.count
         IN  /\ last'.rl.set
             /\ last'.rl.limit = RATE_LIMIT_MAX_REQUESTS
             /\ last'.rl.remaining = (IF left > 0 THEN left ELSE 0)
             /\ last'.rl.reset = CeilDiv(entry.resetTime, 1000)]_vars

----------------------------------------------------------------------------
(* Specification of the open pipeline: development mode; one client sends more
   requests than the ceiling within one window, to POST / and to GET /health,
   while the sweep timer runs and windows pass *)

PostOpen ==
    \E key \in {"absent", "wrong"} :
        /\ Capped(RATE_LIMIT_MAX_REQUESTS + MaxOver)
        /\ Post([BaseRequest EXCEPT !.method = "tools/list", !.xApiKey = key])

NextOpen ==
    \/ PostOpen
    \/ /\ Capped(RATE_LIMIT_MAX_REQUESTS + MaxOver)
       /\ GetEndpoint([BaseRequest EXCEPT !.method = "GET /health", !.id = "absent"])
    \/ RateSweep
    \/ AdvanceRate

SpecOpen == Init /\ [][NextOpen]_vars

\* C28: outside guarded mode no request is answered as rate limited, no
\* response carries rate-limit headers and the rate-limit map stays empty,
\* however many requests the client has sent.
C28_LimiterDisabled ==
    /\ rateLimitStore = EmptyMap
    /\ last.stage # "ratelimit"
    /\ last.status # 429
    /\ ~last.rl.set

\* More requests than the ceiling within one window, the last one answered by
\* the handler.
C28_Witness ==
    /\ metrics.total > RATE_LIMIT_MAX_REQUESTS
    /\ now < RATE_LIMIT_WINDOW
    /\ last.kind = "post"
    /\ last.stage = "dispatch"
    /\ last.status = 200
    /\ rateLimitStore = EmptyMap

----------------------------------------------------------------------------
(* Specification of the response-time history: the process after about a
   thousand answered requests of differing durations; a few more requests are
   answered while the cleanup timer fires *)

\* Histories of lengths around the cleanup's threshold, whose samples differ
\* from position to position.
Histories ==
    { [i \in 1..n |-> (i * k) % 7]
        : n \in {HISTORY_LIMIT - 1, HISTORY_LIMIT, HISTORY_LIMIT + 1,
                 HISTORY_LIMIT + HISTORY_KEEP + 1},
          k \in {1, 3} }

\* The metrics after Len(h) requests were answered 200 through res.json with
\* the response times h.
MetricsOf(h) ==
    [InitialMetrics EXCEPT !.total = Len(h), !.success = Len(h),
                           !.byStatus = [st \in {200} |-> Len(h)],
                           !.history = h,
                           !.avg = [sum |-> SumSeq(h), n |-> Len(h)]]

InitCompact ==
    /\ now = 0
    /\ env = Development
    /\ sessions = EmptyMap
    /\ issued = {}
    /\ rateLimitStore = EmptyMap
    /\ metrics \in {MetricsOf(h) : h \in Histories}
    /\ timers = [sessionSweep |-> SWEEP_INTERVAL, rateSweep |-> RATE_SWEEP_INTERVAL,
                 compaction |-> COMPACT_INTERVAL]
    /\ streams = EmptyMap
    /\ pending = <<>>
    /\ last = NoRequest
    /\ created = <<>>

PostCompact ==
    \E req \in {[BaseRequest EXCEPT !.method = mth]
                    : mth \in {"tools/list", "resources/list"}} :
        /\ Capped(HISTORY_LIMIT + 1 + MaxExtra)
        /\ Post(req)

NextCompact ==
    \/ PostCompact
    \/ ResumeAny
    \/ Compact
    \/ \E t \in {COMPACT_INTERVAL, 2 * COMPACT_INTERVAL} : Advance(t)

SpecCompact == InitCompact /\ [][NextCompact]_vars

\* The cleanup timer fired in this step.
CompactStep == timers'.compaction # timers.compaction

\* C30: the cleanup leaves a history of at most 1000 samples, and its mean,
\* untouched; it replaces a longer history by its last 500 samples in their
\* order and the mean by the mean of those 500; after it the history holds
\* at most 1000 samples.  Nothing else of the metrics changes.
C30_Compaction ==
    [][CompactStep =>
         LET h == metrics.history
             kept == metrics'.history
         IN  /\ Len(h) <= 1000 => metrics' = metrics
             /\ Len(h) > 1000
                    => /\ Len(kept) = 500
                       /\ \A i \in 1..500 : kept[i] = h[Len(h) - 500 + i]
                       /\ metrics'.avg = [sum |-> SumSeq(kept), n |-> 500]
                       /\ metrics' = [metrics EXCEPT !.history = kept,
                                                     !.avg = metrics'.avg]
             /\ Len(kept) <= 1000]_vars

\* The cleanup has truncated a history that had grown past 1000 samples by a
\* request answered after the start, and requests were recorded since.
C30_Witness ==
    /\ timers.compaction > COMPACT_INTERVAL
    /\ metrics.total = HISTORY_LIMIT + 2
    /\ Len(metrics.history) = HISTORY_KEEP + 1
    /\ metrics.avg.n = HISTORY_KEEP + 1
    /\ metrics.history[1] # metrics.history[HISTORY_KEEP]

----------------------------------------------------------------------------
(* Specification of the failure paths: requests whose handling raises an
   exception -- in the tool handler, in the lookup of an inherited property,
   in the destructuring of params: null, in the body parser -- in production
   and in development mode *)

FailRequests ==
    { [BaseRequest EXCEPT !.method = "tools/call", !.name = n, !.xApiKey = "secret",
                          !.accept = a]
        : n \in {"ping", "constructor"},
          a \in {"application/json", "text/event-stream"} }
      \cup
    { [BaseRequest EXCEPT !.method = mth, !.params = "null", !.xApiKey = "secret"]
        : mth \in {"tools/call", "resources/read"} }
      \cup
    { [BaseRequest EXCEPT !.method = "resources/read", !.uri = "frappe://schema/User",
                          !.xApiKey = "secret"],
      [BaseRequest EXCEPT !.bodyOk = FALSE, !.xApiKey = "secret"] }

NextFail ==
    \/ \E req \in FailRequests : Capped(MaxRequests) /\ Post(req)
    \/ ResumeAny

SpecFail == InitWith({Production, Development}) /\ [][NextFail]_vars

\* The messages written for the finished request.
Written == {last.bodies[i] : i \in 1..Len(last.bodies)}
               \cup {last.frames[i] : i \in 1..Len(last.frames)}

\* C31: a request whose handler or collaborator raised an exception is
\* answered with error -32603, and outside development mode no error -32603
\* carries the text of the exception in its message or the exception in its
\* data.
C31_GenericErrors ==
    last.kind = "post"
        => /\ (last.threw \/ last.outcome \in {"throw", "zod"})
                  => \E m \in Written : m.kind = "error" /\ m.code = -32603
           /\ env.NODE_ENV # "development"
                  => \A m \in Written :
                         (m.kind = "error" /\ m.code = -32603)
                             => m.text = "fixed" /\ m.data = {}

\* C34: a sweep tick reports the live count and the live count plus the number
\* it removed; the session figures GET /metrics would show are consistent
\* with the store -- active is the number of stored sessions and total is
\* not below active -- and total does not decrease in a step that creates a
\* session.
C34_SessionFigures ==
    /\ [](LET shown == SessionFigures(metrics, sessions)
          IN  /\ shown.active = Cardinality(DOMAIN sessions)
              /\ shown.total >= shown.active)
    /\ [][SweepStep =>
             /\ metrics'.sessionsActive = Cardinality(DOMAIN sessions')
             /\ metrics'.sessionsTotal = Cardinality(DOMAIN sessions)]_vars
    /\ [][issued' # issued => metrics'.sessionsTotal >= metrics.sessionsTotal]_vars

\* The rate-limit map as it would be had only client c ever sent requests.
OwnEntries(c) == [k \in DOMAIN rateLimitStore \cap {c} |-> rateLimitStore[k]]

\* C36: a request of client c through the rate limiter reads and writes the
\* entry of c only: the entries of all other clients stay as they are, and
\* the decision, the counter and retryAfter are what they would be if the
\* map held nothing but the entry of c.  (By induction over a run, the
\* outcomes of c's requests do not depend on the requests of other clients.)
C36_ClientIsolation ==
    [][RateStep =>
         LET c == last'.req.client
             alone == RateEntryAfter(OwnEntries(c), c, now)
         IN  /\ DOMAIN rateLimitStore' = DOMAIN rateLimitStore \cup {c}
             /\ \A o \in DOMAIN rateLimitStore \ {c} :
                    rateLimitStore'[o] = rateLimitStore[o]
             /\ rateLimitStore'[c] = alone
             /\ (last'.stage = "ratelimit") = (alone.count > RATE_LIMIT_MAX_REQUESTS)
             /\ last'.stage = "ratelimit"
                    => last'.retryAfter = CeilDiv(alone.resetTime - now, 1000)
             /\ last'.stage # "ratelimit"
                    => last'.rl.remaining =
                           (IF RATE_LIMIT_MAX_REQUESTS > alone.count
                            THEN RATE_LIMIT_MAX_REQUESTS - alone.count ELSE 0)]_vars

\* Client a was counted a third time while client b has an entry of its own
\* with one counted request.
C36_Witness ==
    /\ last.stage = "dispatch"
    /\ last.req.client = "a"
    /\ DOMAIN rateLimitStore = {"a", "b"}
    /\ rateLimitStore["b"].count = 1
    /\ rateLimitStore["a"].count = 3
    /\ last.rl.remaining = RATE_LIMIT_MAX_REQUESTS - 3

\* The rate-limit sweep ran in this step.
RateSweepStep == timers'.rateSweep # timers.rateSweep

\* The entries whose window is still running.
LiveEntries ==
    [k \in {c \in DOMAIN rateLimitStore : now <= rateLimitStore[c].resetTime}
        |-> rateLimitStore[k]]

\* C37: the rate-limit sweep deletes only entries whose window has expired
\* (now > resetTime) and leaves the others as they are; and what a request
\* gets from the rate limiter -- decision, counter, retryAfter, headers -- is
\* what it would get from the entries of running windows alone, so that
\* deleting expired entries at any time changes nothing a client sees.
C37_SweepTransparent ==
    [][/\ RateSweepStep =>
             /\ DOMAIN rateLimitStore' \subseteq DOMAIN rateLimitStore
             /\ \A k \in DOMAIN rateLimitStore :
                    IF k \in DOMAIN rateLimitStore'
                    THEN rateLimitStore'[k] = rateLimitStore[k]
                    ELSE now > rateLimitStore[k].resetTime
       /\ RateStep =>
             LET c == last'.req.client
                 live == RateEntryAfter(LiveEntries, c, now)
             IN  /\ rateLimitStore'[c] = live
                 /\ (last'.stage = "ratelimit") = (live.count > RATE_LIMIT_MAX_REQUESTS)
                 /\ last'.stage = "ratelimit"
                        => last'.retryAfter = CeilDiv(live.resetTime - now, 1000)
                 /\ last'.stage # "ratelimit"
                        => /\ last'.rl.reset = CeilDiv(live.resetTime, 1000)
                           /\ last'.rl.remaining =
                                  (IF RATE_LIMIT_MAX_REQUESTS > live.count
                                   THEN RATE_LIMIT_MAX_REQUESTS - live.count ELSE 0)]_vars

\* The sweep has just run and the map is empty although requests were counted:
\* their entries were deleted.
C37_Witness ==
    /\ timers.rateSweep = now + RATE_SWEEP_INTERVAL
    /\ rateLimitStore = EmptyMap
    /\ metrics.total >= 1
    /\ now > RATE_LIMIT_WINDOW

\* C38: every result or error written for a POST / request that carries an id
\* -- 0 and the empty string included -- has exactly that id.
C38_IdEcho ==
    (last.kind = "post" /\ last.req.bodyOk /\ last.req.id # "absent")
        => \A m \in Written : m.kind \in {"result", "error"} => m.id = last.req.id

\* The HTTP status that belongs to a JSON-RPC error code.
StatusOfCode(code) ==
    CASE code = -32600 -> 400
      [] code = -32601 -> 404
      [] code = -32602 -> 400
      [] code = -32603 -> 500
      [] OTHER -> 0

\* C39: a buffered error response of the dispatcher with code -32600, -32601,
\* -32602 or -32603 has status 400, 404, 400 or 500 respectively.
C39_StatusOfCode ==
    (Dispatched /\ ~last.streaming)
        => \A i \in 1..Len(last.bodies) :
               (/\ last.bodies[i].kind = "error"
                /\ last.bodies[i].code \in {-32600, -32601, -32602, -32603})
                   => last.status = StatusOfCode(last.bodies[i].code)

\* C40: the requests counted as a success or as an error are among those
\* counted in the total: success + error <= total.
C40_CountersBounded == metrics.success + metrics.error <= metrics.total

----------------------------------------------------------------------------
(* Specification of the event streams: streamed POST / requests and GET /
   connections with their heartbeat timers, over a clock that crosses two
   heartbeat periods *)

StreamTimes == {0, HEARTBEAT_INTERVAL, 2 * HEARTBEAT_INTERVAL}

StreamRequests ==
    { [BaseRequest EXCEPT !.method = "resources/read", !.uri = u,
                          !.accept = "text/event-stream"]
        : u \in {"absent", "frappe://schema/User"} }

PostStream == \E req \in StreamRequests : Capped(MaxRequests) /\ Post(req)

GetStream == Capped(MaxRequests) /\ GetRoot(GetRequest)

AdvanceStream == \E t \in StreamTimes : Advance(t)

NextStreams ==
    \/ PostStream
    \/ GetStream
    \/ ResumeAny
    \/ HeartbeatAny
    \/ CloseAny
    \/ AdvanceStream

SpecStreams == Init /\ [][NextStreams]_vars

\* C14: a connection that has completed (terminal frame sent, stream ended) or
\* whose client has disconnected has no active heartbeat timer, and its
\* heartbeat callback never ran after the stream was ended.
C14_HeartbeatCancelled ==
    \A k \in DOMAIN streams :
        (streams[k].ended \/ ~streams[k].open)
            => ~streams[k].hb /\ ~streams[k].late

\* The standing connections opened by GET /.
GetStreams == {k \in DOMAIN streams : streams[k].kind = "get"}

\* C25: a GET / connection stores a session under a fresh id and writes the
\* welcome frame carrying that id before any heartbeat; while the client is
\* connected the heartbeat timer is active; after the disconnect the timer is
\* cancelled, no further heartbeat is written and the session id of the
\* connection is not in the store.
C25_GetLifecycle ==
    /\ [](\A k \in GetStreams :
              /\ ~streams[k].ended
              /\ ~streams[k].late
              /\ streams[k].open => streams[k].hb
              /\ ~streams[k].open
                     => ~streams[k].hb /\ streams[k].sid \notin DOMAIN sessions)
    /\ [][\A k \in DOMAIN streams' \ DOMAIN streams :
              streams'[k].kind = "get"
                  => /\ streams'[k].sid \notin issued
                     /\ streams'[k].sid \in DOMAIN sessions'
                     /\ streams'[k].open
                     /\ streams'[k].beats = 0
                     /\ last'.frames = <<WelcomeFrame(streams'[k].sid)>>]_vars
    /\ [][\A k \in GetStreams :
              ~streams[k].open => streams'[k].beats = streams[k].beats]_vars

\* A GET / connection that received a heartbeat, was closed by the client, and
\* whose session is gone.
C25_Witness ==
    \E k \in GetStreams :
        /\ ~streams[k].open
        /\ streams[k].beats >= 1
        /\ streams[k].sid \in issued \ DOMAIN sessions

----------------------------------------------------------------------------
(* Specification of the snapshot endpoints: production mode with a configured
   secret; one client opens a session with initialize and then reads the
   snapshot endpoints, with and without that session's id, as time passes *)

ReadRequestsGet ==
    { [BaseRequest EXCEPT !.method = e, !.id = "absent", !.sid = sid,
                          !.xApiKey = "secret"]
        : e \in ReadOnlyEndpoints, sid \in {NoSession, 1} }

PostRead ==
    /\ issued = {}
    /\ Post([BaseRequest EXCEPT !.method = "initialize", !.xApiKey = "secret"])

GetRead == \E req \in ReadRequestsGet : Capped(MaxReads) /\ GetEndpoint(req)

NextRead ==
    \/ PostRead
    \/ GetRead
    \/ ResumeAny
    \/ Advance(1500)

SpecRead == InitWith({Production, Development}) /\ [][NextRead]_vars

\* A step in which a request to a snapshot endpoint is taken up or answered.
ReadOnlyStep ==
    \/ last' # last /\ last'.kind = "read" /\ last'.stage = "dispatch"
    \/ /\ Len(pending') > Len(pending)
       /\ pending'[Len(pending')].req.method \in ReadOnlyEndpoints

\* C26: a request to GET /health, /info, /metrics, /tools, /resources or
\* /prompts leaves the session store, the rate-limit map and the metrics
\* counters unchanged.
C26_NoSideEffects ==
    [][ReadOnlyStep => UNCHANGED <<sessions, rateLimitStore, metrics>>]_vars

\* C32: the metrics change only in a step of the metrics middleware -- a
\* request entering it (total + 1) or its wrapped res.json recording the
\* response of a resumed handler -- and the session figures, which the
\* middleware never writes, do not change at all.
C32_MetricsWriters ==
    [][/\ metrics' # metrics
             => metrics'.total = metrics.total + 1 \/ Len(pending') < Len(pending)
       /\ metrics'.sessionsActive = metrics.sessionsActive
       /\ metrics'.sessionsTotal = metrics.sessionsTotal]_vars

----------------------------------------------------------------------------
(* Specification of the guarded pipeline: production mode with a configured
   secret; requests with every kind of credential, with and without a session
   id, while a handler is suspended, before and after one client has used up
   its window *)

GuardTimes == {0, 1500}

Credentials ==
    { [xApiKey |-> x, authorization |-> "absent"] : x \in {"absent", "secret", "wrong"} }
      \cup
    { [xApiKey |-> "absent", authorization |-> a]
        : a \in {"Bearer secret", "Bearer wrong", "Bearer Bearer secret",
                 "seBearer cret", "secret"} }
      \cup
    { [xApiKey |-> x, authorization |-> "Bearer secret"] : x \in {"wrong", "empty"} }

\* The request most clients send: a tools/list with the right key.
PlainRequest == [BaseRequest EXCEPT !.method = "tools/list", !.xApiKey = "secret"]

\* Requests with any credential, with and without a session id.
GuardRequests ==
    { [BaseRequest EXCEPT !.method = "initialize", !.sid = sid,
                          !.xApiKey = cr.xApiKey,
                          !.authorization = cr.authorization]
        : sid \in {NoSession, 1}, cr \in Credentials }
      \cup
    { [BaseRequest EXCEPT !.method = "tools/list", !.sid = 1, !.xApiKey = cr.xApiKey,
                          !.authorization = cr.authorization]
        : cr \in Credentials }
      \cup
    { [BaseRequest EXCEPT !.method = "tools/call", !.name = "ping",
                          !.xApiKey = x]
        : x \in {"secret", "wrong"} }

InitGuard == InitWith({Production})

\* The first requests of the run and the ones around the rate-limit ceiling
\* take any shape; the many requests in between are plain.
Varied ==
    \/ metrics.total < MaxRequests
    \/ Counted("a") >= RATE_LIMIT_MAX_REQUESTS - 1

PostGuard ==
    \E req \in GuardRequests \cup {PlainRequest} :
        /\ Capped(RATE_LIMIT_MAX_REQUESTS + MaxOver)
        /\ Counted("a") < RATE_LIMIT_MAX_REQUESTS + MaxOver
        /\ req # PlainRequest => Varied
        /\ Post(req)

ResumeGuard == Varied /\ ResumeAny

AdvanceGuard == \E t \in GuardTimes : Advance(t)

NextGuard ==
    \/ PostGuard
    \/ ResumeGuard
    \/ AdvanceGuard

SpecGuard == InitGuard /\ [][NextGuard]_vars

\* The credential a request supplies, as the claim words it: the x-api-key
\* header or else the bearer value of the Authorization header (a header
\* without the Bearer scheme is taken as the value itself).
SuppliedCredential(req) ==
    IF req.xApiKey \notin {"absent", "empty"} THEN req.xApiKey
    ELSE CASE req.authorization = "absent" -> "missing"
           [] req.authorization = "Bearer secret" -> "secret"
           [] req.authorization = "Bearer wrong" -> "wrong"
           [] req.authorization = "Bearer Bearer secret" -> "Bearer secret"
           [] OTHER -> req.authorization

\* C16: with a configured secret in guarded mode, a request gets past the
\* security stage exactly when the credential it supplies equals the secret;
\* any other request is answered 401 with error -32000, runs no handler and
\* creates no session.
C16_ExactCredential ==
    last.kind # "none"
        => /\ (last.stage # "security")
                  = (SuppliedCredential(last.req) = env.MCP_API_KEY)
           /\ last.stage = "security"
                  => /\ last.status = 401
                     /\ last.bodies[1].kind = "error"
                     /\ last.bodies[1].code = -32000
                     /\ last.invoked = 0
                     /\ last.createdSid = NoSession

\* A request was answered in this step by the stage named.
AnsweredBy(stage) == last' # last /\ last'.stage = stage

\* C17: security runs before rate limiting, and both before metrics, session
\* resolution and dispatch.  A request the security stage rejects gets that
\* one response, whatever the rate limiter would have said, and leaves the
\* rate-limit map, the session store and the suspended handlers as they
\* were; a request the rate limiter rejects has passed security, is counted
\* by the limiter only, and leaves the session store and the suspended
\* handlers as they were; neither is seen by the metrics stage.
C17_PipelineOrder ==
    /\ [](last.kind # "none"
            => /\ Unauthorized(last.req) => last.stage = "security"
               /\ last.stage \in {"security", "ratelimit"}
                      => /\ Len(last.bodies) = 1
                         /\ last.frames = <<>>
                         /\ last.status = (IF last.stage = "security" THEN 401 ELSE 429)
                         /\ last.invoked = 0
                         /\ last.createdSid = NoSession
                         /\ last.session = NoSession)
    /\ [][AnsweredBy("security")
            => UNCHANGED <<rateLimitStore, sessions, issued, created, pending,
                           streams, metrics>>]_vars
    /\ [][AnsweredBy("ratelimit")
            => /\ UNCHANGED <<sessions, issued, created, pending, streams, metrics>>
               /\ rateLimitStore'[last'.req.client].count = last'.found + 1]_vars
    /\ [][AnsweredBy("dispatch") /\ pending' = pending
            => /\ metrics'.total = metrics.total + 1
               /\ rateLimitStore'[last'.req.client].count = last'.found + 1
                  \/ rateLimitStore'[last'.req.client].count = 1]_vars

\* A request with a wrong key, bearing the id of a stored session that was
\* idle, arrived from a client that had used up its window while a handler
\* was suspended: security answered it.
C17_Witness ==
    /\ last.stage = "security"
    /\ last.req.xApiKey = "wrong"
    /\ last.req.sid \in DOMAIN sessions
    /\ sessions[last.req.sid].lastActivity < now
    /\ last.found > RATE_LIMIT_MAX_REQUESTS
    /\ Len(pending) = 1

\* An initialize request was answered in this step.
InitializeStep ==
    /\ metrics'.total = metrics.total + 1
    /\ pending' = pending
    /\ last'.kind = "post"
    /\ last'.stage = "dispatch"
    /\ last'.req.jsonrpc = "2.0"
    /\ last'.req.method = "initialize"

\* C18: an initialize request whose x-session-id names no stored session
\* creates exactly one session, stores it, and reports its id in the
\* x-session-id response header and in result.sessionId; one that bears the id
\* of a stored session creates none and reports that id in result.sessionId.
C18_InitializeSession ==
    [][InitializeStep =>
         LET body == last'.bodies[1]
         IN  /\ body.kind = "result"
             /\ body.result.tag = "initialize"
             /\ IF last'.req.sid \in DOMAIN sessions
                THEN /\ DOMAIN sessions' = DOMAIN sessions
                     /\ created' = created
                     /\ last'.createdSid = NoSession
                     /\ body.result.sessionId = last'.req.sid
                ELSE \E id \in SessionIds \ DOMAIN sessions :
                     /\ DOMAIN sessions' = DOMAIN sessions \cup {id}
                     /\ created' = Append(created, id)
                     /\ sessions'[id] = [createdAt |-> now, lastActivity |-> now]
                     /\ last'.headerSid = id
                     /\ body.result.sessionId = id]_vars

\* An initialize request bearing the id of a session that is no longer stored
\* got a new session, reported in header and body.
C18_Witness ==
    /\ Dispatched
    /\ last.req.method = "initialize"
    /\ last.req.sid \in issued
    /\ last.req.sid \notin DOMAIN sessions
    /\ last.createdSid \in DOMAIN sessions
    /\ last.createdSid # last.req.sid
    /\ last.headerSid = last.createdSid
    /\ last.bodies[1].result.sessionId = last.createdSid

\* A POST / request was answered in this step by the dispatcher.
PostStep ==
    /\ metrics'.total = metrics.total + 1
    /\ pending' = pending
    /\ last'.kind = "post"
    /\ last'.stage = "dispatch"

\* C19: the store gains an id only when an initialize request without a
\* stored session or a GET / connection creates it, and loses ids only to
\* the sweep or to the disconnect of the GET / connection that created the
\* session; any other request leaves the stored ids, and every session but
\* the one it names, as they were.
C19_StoreChanges ==
    [][/\ DOMAIN sessions' \ DOMAIN sessions # {}
            => /\ created' # created
               /\ DOMAIN sessions' \ DOMAIN sessions = {created'[Len(created')]}
               /\ last'.createdSid = created'[Len(created')]
               /\ \/ last'.kind = "get"
                  \/ /\ last'.kind = "post"
                     /\ last'.req.jsonrpc = "2.0"
                     /\ last'.req.method = "initialize"
                     /\ last'.req.sid \notin DOMAIN sessions
       /\ DOMAIN sessions \ DOMAIN sessions' # {}
            => \/ SweepStep
               \/ \E k \in DOMAIN streams :
                      /\ streams[k].kind = "get"
                      /\ streams[k].open /\ ~streams'[k].open
                      /\ DOMAIN sessions \ DOMAIN sessions' = {streams[k].sid}
       /\ (PostStep /\ last'.createdSid = NoSession)
            => /\ DOMAIN sessions' = DOMAIN sessions
               /\ \A id \in DOMAIN sessions \ {last'.req.sid} :
                      sessions'[id] = sessions[id]
       /\ (PostStep /\ ~(last'.req.jsonrpc = "2.0" /\ last'.req.method = "initialize"
                          /\ last'.req.sid \notin DOMAIN sessions))
            => last'.createdSid = NoSession]_vars

\* A request bearing the id of a session that is no longer stored was
\* answered normally while other sessions were stored.
C19_Witness ==
    /\ Dispatched
    /\ last.req.method = "tools/list"
    /\ last.req.sid \in issued
    /\ last.req.sid \notin DOMAIN sessions
    /\ last.status = 200
    /\ last.session = NoSession
    /\ sessions # EmptyMap

====
